---------------------------- MODULE Spec2Model ----------------------------
(***************************************************************************)
(* A model of the stream resolution and proxy core of tubetto:             *)
(*   - the batch synchronisation jobs of tubetto/services.py,              *)
(*   - the streaming proxy views of videos/views.py and music/views.py,    *)
(*   - the HLS manifest rewriter hls_manifest of videos/views.py.          *)
(* The jobs and the views have their own specifications (SpecBatch,        *)
(* SpecViews) over the module's variables; each leaves the other's alone.  *)
(***************************************************************************)
EXTENDS Integers, Sequences, FiniteSets, TLC

VARIABLES
    \* ---- batch jobs (tubetto/services.py) ----
    job,          \* the job that runs: one of Jobs, or "none"
    jobState,     \* "idle" | "running" | "returned" | "aborted"
    n,            \* size of the collection X.objects.all() the job walks
    idx,          \* 1-based position of the for loop in the collection
    results,      \* the results dict the job builds
    raised,       \* history: items whose iteration raised or hit a failure
    adapterFailed,\* history: items whose adapter call failed (DownloadError)
    otherFailure, \* history: some failure other than an adapter call failure
    abortedBy,    \* the exception class that left the loop, or "none"
    \* ---- views (videos/views.py, music/views.py) ----
    pc,           \* position of the request being served: "idle", the steps
                  \* of hls_manifest, "done"
    request,      \* the client request: view, catalog lookup, u, Range
    info,         \* what resolve_stream_manifest / resolve_audio_stream gave
    upstreamRequests, \* the requests.get calls issued, in order
    upstream,     \* the last upstream response (status, headers)
    response,     \* the response returned to the client
    raisedIn,     \* the phase whose exception ended the view, or "none"
    \* ---- locals of hls_manifest ----
    text,         \* the manifest text being rewritten
    base,         \* the base URL its lines are resolved against
    variant_url,  \* the variant playlist's URL, <<>> for None
    rewritten,    \* the list of output lines
    content,      \* the response body
    \* ---- format selection (tubetto/services.py) ----
    selPc,        \* "idle" | "extracted" | "done"
    data,         \* the info dict the selection runs on
    called,       \* the function applied to it, or "none"
    returned,     \* what the call returned, or the exception it raised
    \* ---- the cache (tubetto/services.py) ----
    _CACHE,       \* the dict: key -> <<expires_epoch, data>>
    now,          \* what time.time() gives
    ticks,        \* how often the clock has advanced
    cacheOp,      \* the last cache call: name, key, result, exception,
                  \* number of adapter invocations
    lastSet,      \* history: key -> time, ttl and data of its latest
                  \* _cache_set
    \* ---- concurrent cache access ----
    threads,      \* thread -> its position in a cache operation, the key,
                  \* the item it read, its result, the exception raised
    stored,       \* history: the <<key, entry>> pairs ever stored
    extractions,  \* history: video id -> number of adapter invocations
    \* ---- run_scheduled_task (tubetto/services.py) ----
    schedPc,      \* "idle" | "calling" | "returned" | "aborted"
    started,      \* the jobs it has called, in order
    reported,     \* the jobs whose results it holds, in order
    recorded,     \* some job it holds the results of recorded an error
    \* ---- the field diff of the metadata jobs (tubetto/services.py) ----
    diffJob,      \* the metadata job that runs, or "none"
    walked,       \* how many records its loop has walked
    counts,       \* its processed and updated counters
    scanPc,       \* scan_channel_videos: "idle" | "invalidate" | "list" | "done"
    scanIdx,      \* 1-based position of its loop in the channels
    listed,       \* history: channel -> what the scan found and did for it
    lastItem      \* the last record walked: its stored fields, what the
                  \* adapter returned, whether save() ran, the fields after

batchVars == <<job, jobState, n, idx, results, raised, adapterFailed,
               otherFailure, abortedBy>>

hlsVars == <<text, base, variant_url, rewritten, content>>

viewVars == <<pc, request, info, upstreamRequests, upstream, response, raisedIn,
              hlsVars>>

selVars == <<selPc, data, called, returned>>

cacheVars == <<_CACHE, now, ticks, cacheOp, lastSet>>

concVars == <<threads, stored, extractions>>

schedVars == <<schedPc, started, reported, recorded>>

diffVars == <<diffJob, walked, counts, lastItem>>

scanVars == <<scanPc, scanIdx, listed>>

coreVars == <<selVars, cacheVars, concVars, schedVars, diffVars, scanVars>>

vars == <<batchVars, viewVars, coreVars>>

-----------------------------------------------------------------------------
(***************************************************************************)
(* Batch synchronisation jobs                                              *)
(***************************************************************************)

\* Largest collection a job walks in the model.
MaxItems == 3

Jobs == {"update_channels_metadata", "scan_channel_videos",
         "update_videos_metadata", "update_music_tracks_metadata"}

\* What the extraction adapter (yt_dlp extract_info, or the yt-dlp process of
\* list_channel_videos_flat) does for one item: it returns an info dict, it
\* raises DownloadError (returncode # 0 for the process), or it returns
\* None / JSON null.
AdapterOutcomes == {"ok", "DownloadError", "None"}

\* What a persistence write (save, get_or_create) does.
DbOutcomes == {"ok", "DatabaseError"}

\* One item's inputs: the adapter's outcome, whether a returned non-null
\* field differs from the stored record, and the outcome of the write.
ItemCases ==
    { c \in [adapter : AdapterOutcomes, differs : BOOLEAN, db : DbOutcomes] :
        /\ (c.adapter # "ok") => (~c.differs)
        /\ (~c.differs) => (c.db = "ok") }

\* The videos a channel listing returns to scan_channel_videos, each with
\* its own inputs: the metadata adapter's outcome and the write's outcome.
VideoCases ==
    { v \in [adapter : {"ok", "DownloadError"}, db : DbOutcomes] :
        (v.adapter # "ok") => (v.db = "ok") }

Listings == { <<v>> : v \in VideoCases }
            \cup { <<v, w>> : v \in VideoCases, w \in VideoCases }

NoResults == [processed |-> 0, updated |-> 0, scanned |-> 0, errors |-> <<>>]

\* An errors entry: the item it names (video = 0), or the video of the item.
ErrorEntry(i, v) == [item |-> i, video |-> v]

\* resolve_video_info: DownloadError is re-raised as RuntimeError; a None
\* result is stored and returned as it is.
resolve_video_info_raises(adapter) ==
    IF adapter = "DownloadError" THEN "RuntimeError" ELSE "none"

\* metadata_from_info(data) calls data.get: None has no attribute get.
metadata_from_info_raises(adapter) ==
    IF adapter = "None" THEN "AttributeError" ELSE "none"

\* resolve_channel_metadata: DownloadError is swallowed and {} returned; the
\* final return calls data.get outside the try block.
resolve_channel_metadata_raises(adapter) ==
    IF adapter = "None" THEN "AttributeError" ELSE "none"

\* list_channel_videos_flat: a non-zero return code gives []; JSON null
\* makes data.get raise.
list_channel_videos_flat_raises(adapter) ==
    IF adapter = "None" THEN "AttributeError" ELSE "none"

\* The first exception among those of the steps of one iteration, in order.
FirstRaised(excs) ==
    IF \A k \in 1..Len(excs) : excs[k] = "none" THEN "none"
    ELSE excs[CHOOSE k \in 1..Len(excs) :
                  /\ excs[k] # "none"
                  /\ \A m \in 1..(k - 1) : excs[m] = "none"]

\* The except clause of each job's loop body.
update_channels_metadata_catches == {"RuntimeError", "ValueError", "AttributeError"}
update_videos_metadata_catches == {"RuntimeError", "ValueError", "AttributeError"}
update_music_tracks_metadata_catches == {"RuntimeError", "ValueError", "TypeError"}
scan_channel_videos_catches == {"RuntimeError", "ValueError", "AttributeError"}
scan_video_catches == {"RuntimeError", "ValueError", "AttributeError", "KeyError"}

SaveRaises(c) == IF c.differs /\ c.db = "DatabaseError" THEN "DatabaseError" ELSE "none"

\* The exception one iteration of a metadata job raises inside its try block.
ItemRaises(j, c) ==
    CASE j = "update_channels_metadata" ->
           FirstRaised(<<resolve_channel_metadata_raises(c.adapter), SaveRaises(c)>>)
      [] j = "update_videos_metadata" ->
           FirstRaised(<<resolve_video_info_raises(c.adapter),
                         metadata_from_info_raises(c.adapter), SaveRaises(c)>>)
      [] j = "update_music_tracks_metadata" ->
           \* info.get("duration") on a None result
           FirstRaised(<<resolve_video_info_raises(c.adapter),
                         metadata_from_info_raises(c.adapter), SaveRaises(c)>>)

Catches(j) ==
    CASE j = "update_channels_metadata" -> update_channels_metadata_catches
      [] j = "update_videos_metadata" -> update_videos_metadata_catches
      [] j = "update_music_tracks_metadata" -> update_music_tracks_metadata_catches
      [] j = "scan_channel_videos" -> scan_channel_videos_catches

BatchInit ==
    /\ job = "none"
    /\ jobState = "idle"
    /\ n = 0
    /\ idx = 1
    /\ results = NoResults
    /\ raised = {}
    /\ adapterFailed = <<>>
    /\ otherFailure = FALSE
    /\ abortedBy = "none"

\* A job is called: the results dict is created and the collection read.
StartJob ==
    /\ jobState = "idle"
    /\ \E j \in Jobs, size \in 0..MaxItems :
         /\ job' = j
         /\ n' = size
    /\ jobState' = "running"
    /\ idx' = 1
    /\ results' = NoResults
    /\ raised' = {}
    /\ adapterFailed' = <<>>
    /\ otherFailure' = FALSE
    /\ abortedBy' = "none"
    /\ UNCHANGED <<viewVars, coreVars>>

\* The effect of one iteration of a metadata job's loop on item idx.
MetadataItem(j, c) ==
    LET exc == ItemRaises(j, c) IN
    /\ raised' = IF exc # "none" \/ c.adapter # "ok" THEN raised \cup {idx} ELSE raised
    /\ adapterFailed' = IF c.adapter = "DownloadError"
                          THEN Append(adapterFailed, idx) ELSE adapterFailed
    /\ otherFailure' = (otherFailure \/ c.adapter = "None" \/ c.db = "DatabaseError")
    /\ IF exc = "none"
         THEN \* the body ran to its end
              /\ results' = [results EXCEPT
                     !.updated = IF c.differs THEN @ + 1 ELSE @,
                     !.processed = @ + 1]
              /\ idx' = idx + 1
              /\ UNCHANGED <<jobState, abortedBy>>
         ELSE IF exc \in Catches(j)
         THEN \* the except clause records the item and the loop goes on
              /\ results' = [results EXCEPT !.errors = Append(@, ErrorEntry(idx, 0))]
              /\ idx' = idx + 1
              /\ UNCHANGED <<jobState, abortedBy>>
         ELSE \* no except clause matches: the exception leaves the job
              /\ jobState' = "aborted"
              /\ abortedBy' = exc
              /\ UNCHANGED <<results, idx>>
    /\ UNCHANGED <<job, n>>
    /\ UNCHANGED <<viewVars, coreVars>>

update_channels_metadata_step ==
    /\ jobState = "running" /\ job = "update_channels_metadata" /\ idx <= n
    /\ \E c \in ItemCases : MetadataItem("update_channels_metadata", c)

update_videos_metadata_step ==
    /\ jobState = "running" /\ job = "update_videos_metadata" /\ idx <= n
    /\ \E c \in ItemCases : MetadataItem("update_videos_metadata", c)

update_music_tracks_metadata_step ==
    /\ jobState = "running" /\ job = "update_music_tracks_metadata" /\ idx <= n
    /\ \E c \in ItemCases : MetadataItem("update_music_tracks_metadata", c)

\* The inner loop of scan_channel_videos over the listed videos, from video k
\* on: the errors it appends, and the exception that leaves it ("none" when
\* it runs to its end). A DownloadError of resolve_video_info is caught by
\* the innermost try; a DatabaseError of get_or_create or save by none.
RECURSIVE ScanVideos(_, _, _, _)
ScanVideos(vids, k, item, errs) ==
    IF k > Len(vids) THEN [errors |-> errs, exc |-> "none"]
    ELSE LET v == vids[k] IN
         IF v.db = "DatabaseError"
           THEN IF "DatabaseError" \in scan_video_catches
                  THEN ScanVideos(vids, k + 1, item, Append(errs, ErrorEntry(item, k)))
                  ELSE [errors |-> errs, exc |-> "DatabaseError"]
         ELSE IF resolve_video_info_raises(v.adapter) # "none"
           THEN ScanVideos(vids, k + 1, item, Append(errs, ErrorEntry(item, k)))
         ELSE ScanVideos(vids, k + 1, item, errs)

\* One iteration of scan_channel_videos: the listing, then the inner loop.
scan_channel_videos_step ==
    /\ jobState = "running" /\ job = "scan_channel_videos" /\ idx <= n
    /\ \E listing \in AdapterOutcomes, vids \in Listings :
         LET lexc == list_channel_videos_flat_raises(listing)
             inner == ScanVideos(vids, 1, idx, <<>>)
             videoFailed == \E k \in 1..Len(vids) :
                               vids[k].adapter # "ok" \/ vids[k].db # "ok"
         IN
         /\ adapterFailed' = IF listing = "DownloadError"
                               THEN Append(adapterFailed, idx) ELSE adapterFailed
         /\ IF listing # "ok"
              THEN \* an empty listing is recorded and the channel skipped; an
                   \* AttributeError is caught by the outer except clause
                   /\ raised' = raised \cup {idx}
                   /\ otherFailure' = (otherFailure \/ listing = "None")
                   /\ IF lexc = "none" \/ lexc \in scan_channel_videos_catches
                        THEN /\ results' = [results EXCEPT
                                   !.errors = Append(@, ErrorEntry(idx, 0))]
                             /\ idx' = idx + 1
                             /\ UNCHANGED <<jobState, abortedBy>>
                        ELSE /\ jobState' = "aborted"
                             /\ abortedBy' = lexc
                             /\ UNCHANGED <<results, idx>>
              ELSE /\ raised' = IF videoFailed THEN raised \cup {idx} ELSE raised
                   /\ otherFailure' = (otherFailure \/ videoFailed)
                   /\ IF inner.exc = "none"
                        THEN /\ results' = [results EXCEPT
                                   !.scanned = @ + Len(vids),
                                   !.errors = @ \o inner.errors,
                                   !.processed = @ + 1]
                             /\ idx' = idx + 1
                             /\ UNCHANGED <<jobState, abortedBy>>
                        ELSE IF inner.exc \in scan_channel_videos_catches
                        THEN /\ results' = [results EXCEPT
                                   !.scanned = @ + Len(vids),
                                   !.errors = Append(@ \o inner.errors,
                                                     ErrorEntry(idx, 0))]
                             /\ idx' = idx + 1
                             /\ UNCHANGED <<jobState, abortedBy>>
                        ELSE /\ jobState' = "aborted"
                             /\ abortedBy' = inner.exc
                             /\ UNCHANGED <<results, idx>>
    /\ UNCHANGED <<job, n>>
    /\ UNCHANGED <<viewVars, coreVars>>

\* The loop is exhausted and the job returns its results.
ReturnJob ==
    /\ jobState = "running" /\ idx > n
    /\ jobState' = "returned"
    /\ UNCHANGED <<job, n, idx, results, raised, adapterFailed, otherFailure,
                   abortedBy>>
    /\ UNCHANGED <<viewVars, coreVars>>

BatchNext ==
    \/ StartJob
    \/ update_channels_metadata_step
    \/ scan_channel_videos_step
    \/ update_videos_metadata_step
    \/ update_music_tracks_metadata_step
    \/ ReturnJob

-----------------------------------------------------------------------------
(***************************************************************************)
(* Views: the streaming proxy (hls_segment, hls_key, progressive_file,     *)
(* music_stream).  A URL is a sequence of tokens ("http:", "/", a name).   *)
(***************************************************************************)

ProxyViews == {"hls_segment", "hls_key", "progressive_file", "music_stream"}

Absent == "absent"

\* Range headers a client sends (Absent: none).
RangeValues == {Absent, "bytes=100-199", "bytes=0-"}

\* The u query parameter: missing, empty, or an upstream URL.
SegmentUrl == <<"http:", "/", "/", "o", "/", "x", "/", "s">>
UValues == {Absent, <<>>, SegmentUrl}

\* The stream the resolver selects for the item.
FileUrl == <<"http:", "/", "/", "o", "/", "f">>
ManifestUrl == <<"http:", "/", "/", "o", "/", "x", "/", "m">>
AudioUrl == <<"http:", "/", "/", "o", "/", "a">>

NoInfo == [stream_type |-> "none", url |-> <<>>]
\* resolve_stream_manifest / resolve_audio_stream raise RuntimeError (the
\* adapter failed, or no format is playable).
RaisedInfo == [stream_type |-> "RuntimeError", url |-> <<>>]
StreamInfos == { [stream_type |-> "progressive", url |-> FileUrl],
                 [stream_type |-> "hls", url |-> ManifestUrl],
                 [stream_type |-> "dash", url |-> ManifestUrl],
                 RaisedInfo }
AudioInfos == { [stream_type |-> "audio", url |-> AudioUrl], RaisedInfo }

\* Headers of an upstream response: each name with its value, or Absent.
UpstreamHeaderNames == {"Content-Length", "Content-Range", "Accept-Ranges",
                        "Cache-Control", "Content-Type", "Set-Cookie"}
HeaderValues(h) ==
    CASE h = "Content-Range" -> {"bytes 100-199/1000", "bytes 0-999/1000"}
      [] h = "Content-Type" -> {"video/mp4", "text/plain"}
      [] OTHER -> {"v"}
UpstreamHeaders ==
    { hs \in [UpstreamHeaderNames ->
                {Absent, "v", "bytes 100-199/1000", "bytes 0-999/1000",
                 "video/mp4", "text/plain"}] :
        \A h \in UpstreamHeaderNames : hs[h] \in HeaderValues(h) \cup {Absent} }

UpstreamStatuses == {200, 206, 404, 416}

NoUpstream == [status |-> 0, headers |-> [h \in UpstreamHeaderNames |-> Absent],
               body |-> <<>>]
\* requests.get raised (connect or read timeout, connection error).
FailedUpstream == [status |-> -1, headers |-> [h \in UpstreamHeaderNames |-> Absent],
                   body |-> <<>>]
\* The body of a proxied response is streamed through and not looked at.
UpstreamResponses ==
    [status : UpstreamStatuses, headers : UpstreamHeaders, body : {<<>>}]
    \cup {FailedUpstream}

NoRequest == [view |-> "none", in_catalog |-> FALSE, u |-> Absent, range |-> Absent]
NoHeaders == [h \in UpstreamHeaderNames |-> Absent]
NoResponse == [status |-> 0, headers |-> NoHeaders, relayed |-> FALSE]

\* HttpResponseForbidden, Http404 and the 500 of an exception that leaves the
\* view: Django's own responses, with its default Content-Type.
DjangoResponse(status) ==
    [status |-> status,
     headers |-> [NoHeaders EXCEPT !["Content-Type"] = "text/html; charset=utf-8"],
     relayed |-> FALSE]

\* The headers dict passed to requests.get: hls_segment and progressive_file
\* copy the client's Range when it has one; hls_key and music_stream pass no
\* headers.
ForwardedRange(view, range) ==
    IF view \in {"hls_segment", "progressive_file"} THEN range ELSE Absent

\* A variant of CopiedHeaders that relays every upstream header.
CopiedHeaders_all(view) == UpstreamHeaderNames

\* The upstream response headers the view copies, when present.
CopiedHeaders(view) ==
    IF view = "hls_key"
      THEN {"Content-Length", "Cache-Control"}
      ELSE {"Content-Length", "Content-Range", "Accept-Ranges", "Cache-Control"}

\* The content_type default of upstream.headers.get('Content-Type', default).
DefaultContentType(view) ==
    CASE view = "hls_segment" -> "video/MP2T"
      [] view = "hls_key" -> "application/octet-stream"
      [] view = "progressive_file" -> "video/mp4"
      [] view = "music_stream" -> "audio/mpeg"

\* The status of the StreamingHttpResponse: status=upstream.status_code, but
\* music_stream passes no status and gets the default 200.
RelayedStatus(view, up) ==
    IF view = "music_stream" THEN 200 ELSE up.status

\* The StreamingHttpResponse built from the upstream response.
Relay(view, up) ==
    [status |-> RelayedStatus(view, up),
     headers |-> [h \in UpstreamHeaderNames |->
         IF h = "Content-Type"
           THEN IF up.headers[h] # Absent THEN up.headers[h]
                ELSE DefaultContentType(view)
         ELSE IF h \in CopiedHeaders(view) THEN up.headers[h]
         ELSE Absent],
     relayed |-> TRUE]

UpstreamGet(url, range) == [url |-> url, range |-> range]

ViewsInit ==
    /\ pc = "idle"
    /\ request = NoRequest
    /\ info = NoInfo
    /\ upstreamRequests = <<>>
    /\ upstream = NoUpstream
    /\ response = NoResponse
    /\ raisedIn = "none"

\* A view returns before any upstream request.
Refuse(req, inf, status, phase) ==
    /\ request' = req
    /\ info' = inf
    /\ upstreamRequests' = <<>>
    /\ upstream' = NoUpstream
    /\ response' = DjangoResponse(status)
    /\ raisedIn' = phase
    /\ pc' = "done"

\* A view issues its requests.get and relays the answer; an exception of
\* requests.get leaves the view.
Proxy(req, inf, url, up) ==
    /\ request' = req
    /\ info' = inf
    /\ upstreamRequests' = <<UpstreamGet(url, ForwardedRange(req.view, req.range))>>
    /\ upstream' = up
    /\ response' = IF up = FailedUpstream THEN DjangoResponse(500)
                   ELSE Relay(req.view, up)
    /\ raisedIn' = IF up = FailedUpstream THEN "upstream" ELSE "none"
    /\ pc' = "done"

\* The stream type a view serves: info.get("stream_type") != "hls" refuses
\* in hls_manifest, != "progressive" in progressive_file.
ServedStreamType_manifests(view, stream_type) ==
    IF view = "hls_manifest" THEN stream_type \in {"hls", "dash"}
    ELSE stream_type = "progressive"

ServedStreamType(view, stream_type) ==
    IF view = "hls_manifest" THEN stream_type = "hls"
    ELSE stream_type = "progressive"

\* The test of u that lets an empty value through.
MissingU_absent_only(u) == u = Absent

\* if not segment_url: / if not key_url: (request.GET.get('u') is None or '')
MissingU(u) == u = Absent \/ u = <<>>

hls_segment ==
    /\ pc = "idle"
    /\ \E c \in BOOLEAN, u \in UValues, r \in RangeValues, up \in UpstreamResponses :
         LET req == [view |-> "hls_segment", in_catalog |-> c, u |-> u, range |-> r]
         IN  IF ~c THEN Refuse(req, NoInfo, 403, "none")
             ELSE IF MissingU(u) THEN Refuse(req, NoInfo, 403, "none")
             ELSE Proxy(req, NoInfo, u, up)
    /\ UNCHANGED <<hlsVars, batchVars, coreVars>>

hls_key ==
    /\ pc = "idle"
    /\ \E c \in BOOLEAN, u \in UValues, r \in RangeValues, up \in UpstreamResponses :
         LET req == [view |-> "hls_key", in_catalog |-> c, u |-> u, range |-> r]
         IN  IF ~c THEN Refuse(req, NoInfo, 403, "none")
             ELSE IF MissingU(u) THEN Refuse(req, NoInfo, 403, "none")
             ELSE Proxy(req, NoInfo, u, up)
    /\ UNCHANGED <<hlsVars, batchVars, coreVars>>

progressive_file ==
    /\ pc = "idle"
    /\ \E c \in BOOLEAN, r \in RangeValues, inf \in StreamInfos,
          up \in UpstreamResponses :
         LET req == [view |-> "progressive_file", in_catalog |-> c, u |-> Absent,
                     range |-> r]
         IN  IF ~c THEN Refuse(req, NoInfo, 403, "none")
             ELSE IF inf = RaisedInfo THEN Refuse(req, inf, 500, "resolver")
             ELSE IF ~ServedStreamType(req.view, inf.stream_type)
               THEN Refuse(req, inf, 403, "none")
             ELSE Proxy(req, inf, inf.url, up)
    /\ UNCHANGED <<hlsVars, batchVars, coreVars>>

music_stream ==
    /\ pc = "idle"
    /\ \E c \in BOOLEAN, r \in RangeValues, inf \in AudioInfos,
          up \in UpstreamResponses :
         LET req == [view |-> "music_stream", in_catalog |-> c, u |-> Absent,
                     range |-> r]
         IN  IF ~c THEN Refuse(req, NoInfo, 404, "none")
             ELSE IF inf = RaisedInfo THEN Refuse(req, inf, 500, "resolver")
             ELSE Proxy(req, inf, inf.url, up)
    /\ UNCHANGED <<hlsVars, batchVars, coreVars>>

\* The response has been sent: the request's values are dropped and the
\* worker serves the next request.
NextRequest ==
    /\ pc = "done"
    /\ pc' = "idle"
    /\ request' = NoRequest
    /\ info' = NoInfo
    /\ upstreamRequests' = <<>>
    /\ upstream' = NoUpstream
    /\ response' = NoResponse
    /\ raisedIn' = "none"
    /\ text' = <<>>
    /\ base' = <<>>
    /\ variant_url' = <<>>
    /\ rewritten' = <<>>
    /\ content' = <<>>
    /\ UNCHANGED <<batchVars, coreVars>>

-----------------------------------------------------------------------------
(***************************************************************************)
(* Views: hls_manifest.  A text is a sequence of tokens: a token stands    *)
(* for a run of characters that the string operations of hls_manifest      *)
(* never cut (a name, "URI=", a quote, a comma, a blank, a line break).    *)
(***************************************************************************)

\* Most lines of a manifest the upstream serves in the model.
MaxLines == 3

SP == " "
NL == "\n"
Q == "\""
COMMA == ","
KEY == "#EXT-X-KEY:"
INF == "#EXT-X-STREAM-INF:"
URI == "URI="

VideoId == "vid"

\* The tokens whose first character is '#'.
HashTokens == {"#", "#EXTM3U", KEY, INF}

\* The lines the upstream's manifests are made of.
LineSamples ==
    { <<SP>>,                                          \* blank
      <<SP, "#EXTM3U", SP>>,                           \* directive, padded
      <<"#", INF>>,                                    \* comment naming the directive
      <<INF, "BANDWIDTH=1">>,                          \* stream-variant directive
      <<KEY, "METHOD=NONE">>,                          \* key directive without URI
      <<KEY, "METHOD=AES-128", COMMA, URI, Q, "k", Q, COMMA, "IV=0x1">>,
      <<KEY, URI, "k", COMMA, "IV=0x1">>,              \* unquoted URI
      <<KEY, URI, "k", COMMA, "KEYFORMAT=", Q, "identity", Q>>,
      <<SP, KEY, URI, Q, "k">>,                        \* quote never closed
      <<SP, KEY, URI, Q, "/", "/", "[", "x", Q>>,      \* URI urljoin rejects
      <<SP, "s", SP>>,                                 \* relative URI, padded
      <<"http:", "/", "/", "p", "/", "d", "/", "s">>,  \* absolute URI
      <<"/", "r">>,                                    \* root-relative URI
      <<"/", "/", "[", "x">> }                         \* URI urljoin rejects

RECURSIVE Concat(_)
Concat(ss) == IF ss = <<>> THEN <<>> ELSE Head(ss) \o Concat(Tail(ss))

\* The text of a manifest: each line followed by a line break.
TextOf(ls) == Concat([k \in 1..Len(ls) |-> Append(ls[k], NL)])

Manifests ==
    { TextOf(ls) : ls \in UNION { [1..k -> LineSamples] : k \in 0..MaxLines } }

\* ---- the string operations hls_manifest uses ----

\* The first position of token t in s, 0 when there is none (str.find).
IndexOf(s, t) ==
    IF \E i \in 1..Len(s) : s[i] = t
      THEN CHOOSE i \in 1..Len(s) : s[i] = t /\ \A m \in 1..(i - 1) : s[m] # t
      ELSE 0

\* The last position of token t in s, 0 when there is none (str.rfind).
LastIndexOf(s, t) ==
    IF \E i \in 1..Len(s) : s[i] = t
      THEN CHOOSE i \in 1..Len(s) : s[i] = t /\ \A m \in (i + 1)..Len(s) : s[m] # t
      ELSE 0

Contains(s, t) == \E i \in 1..Len(s) : s[i] = t

\* str.strip
RECURSIVE LStrip(_)
LStrip(s) == IF s # <<>> /\ Head(s) = SP THEN LStrip(Tail(s)) ELSE s
RECURSIVE RStrip(_)
RStrip(s) == IF s # <<>> /\ s[Len(s)] = SP THEN RStrip(SubSeq(s, 1, Len(s) - 1)) ELSE s
Strip(s) == RStrip(LStrip(s))

\* s.startswith('#'), s.startswith('#EXT-X-KEY'), s.startswith('#EXT-X-STREAM-INF')
StartsWithHash(s) == s # <<>> /\ Head(s) \in HashTokens
StartsWith(s, t) == s # <<>> /\ Head(s) = t

\* str.splitlines: the pieces between line breaks; a final line break opens
\* no further line.
RECURSIVE splitlines(_)
splitlines(t) ==
    IF t = <<>> THEN <<>>
    ELSE LET i == IndexOf(t, NL) IN
         IF i = 0 THEN <<t>>
         ELSE <<SubSeq(t, 1, i - 1)>> \o splitlines(SubSeq(t, i + 1, Len(t)))

\* "\n".join(rewritten)
RECURSIVE join(_)
join(ls) ==
    IF ls = <<>> THEN <<>>
    ELSE IF Len(ls) = 1 THEN Head(ls)
    ELSE Head(ls) \o <<NL>> \o join(Tail(ls))

\* s.replace(old, new) for a non-empty old: every occurrence, left to right.
RECURSIVE replace(_, _, _)
replace(s, old, new) ==
    IF s = <<>> THEN <<>>
    ELSE IF Len(old) <= Len(s) /\ SubSeq(s, 1, Len(old)) = old
      THEN new \o replace(SubSeq(s, Len(old) + 1, Len(s)), old, new)
    ELSE <<Head(s)>> \o replace(Tail(s), old, new)

\* url.rsplit("/", 1)[0] + "/"
BaseOf(url) ==
    LET i == LastIndexOf(url, "/") IN
    IF i = 0 THEN Append(url, "/") ELSE SubSeq(url, 1, i)

\* urljoin raises ValueError (Invalid IPv6 URL) for a network location that
\* opens a bracket it never closes.
urljoin_raises(u) ==
    \/ Len(u) >= 3 /\ u[1] = "/" /\ u[2] = "/" /\ u[3] = "["
    \/ Len(u) >= 4 /\ u[1] = "http:" /\ u[2] = "/" /\ u[3] = "/" /\ u[4] = "["

\* urljoin(base, u) for a base scheme://host/dir/: an empty u gives the base,
\* a u with a scheme is kept, //host/path takes the base's scheme, /path the
\* base's scheme and host, and a relative path the base's directory.  (No
\* token stands for a dot segment, a query or a fragment.)
urljoin(b, u) ==
    IF u = <<>> THEN b
    ELSE IF Head(u) = "http:" THEN u
    ELSE IF Len(u) >= 2 /\ u[1] = "/" /\ u[2] = "/" THEN <<Head(b)>> \o u
    ELSE IF Head(u) = "/" THEN SubSeq(b, 1, 4) \o u
    ELSE BaseOf(b) \o u

\* quote_plus of one token: letters, digits and "_.-~" are kept, a blank
\* becomes "+", every other character its %XX escape.
QuoteToken(t) ==
    CASE t = "http:" -> "http%3A"
      [] t = "/" -> "%2F"
      [] t = SP -> "+"
      [] t = Q -> "%22"
      [] t = COMMA -> "%2C"
      [] t = "[" -> "%5B"
      [] t = NL -> "%0A"
      [] t = URI -> "URI%3D"
      [] t = "IV=0x1" -> "IV%3D0x1"
      [] t = "METHOD=AES-128" -> "METHOD%3DAES-128"
      [] t = "METHOD=NONE" -> "METHOD%3DNONE"
      [] t = "KEYFORMAT=" -> "KEYFORMAT%3D"
      [] t = "BANDWIDTH=1" -> "BANDWIDTH%3D1"
      [] t = "#" -> "%23"
      [] t = "#EXTM3U" -> "%23EXTM3U"
      [] t = KEY -> "%23EXT-X-KEY%3A"
      [] t = INF -> "%23EXT-X-STREAM-INF%3A"
      [] OTHER -> t

\* urlencode({"u": url})
urlencode(url) == <<"u=">> \o [k \in 1..Len(url) |-> QuoteToken(url[k])]

\* f"/stream/{video_id}/key?" and f"/stream/{video_id}/seg?"
KeyProxy(id) == <<"/", "stream", "/", id, "/", "key", "?">>
SegProxy(id) == <<"/", "stream", "/", id, "/", "seg", "?">>

\* ---- the line rewrite (views.py 289-316) ----

\* s.split('URI=', 1)[1]
AfterUri(s) == SubSeq(s, IndexOf(s, URI) + 1, Len(s))

\* rest.split('"', 2)[1] for a rest that starts with a quote: what lies
\* between the first quote and the next one, or the end of the line.
QuotedPart(rest) ==
    LET r == Tail(rest)
        c == IndexOf(r, Q)
    IN  IF c = 0 THEN r ELSE SubSeq(r, 1, c - 1)

\* rest.split(',', 1)[0]
UnquotedPart(rest) ==
    LET c == IndexOf(rest, COMMA) IN
    IF c = 0 THEN rest ELSE SubSeq(rest, 1, c - 1)

\* KeyLineOutput with an except clause that appends nothing.
KeyLineOutput_drops(line, s, b, id) ==
    LET rest == AfterUri(s)
        uri_part == IF StartsWith(rest, Q) THEN QuotedPart(rest)
                    ELSE UnquotedPart(rest)
    IN  IF urljoin_raises(uri_part) THEN <<>>
        ELSE LET upstream_key == urljoin(b, uri_part)
                 proxied == KeyProxy(id) \o urlencode(upstream_key)
             IN  IF Contains(rest, Q)
                   THEN <<replace(s, <<URI, Q>> \o uri_part \o <<Q>>,
                                     <<URI, Q>> \o proxied \o <<Q>>)>>
                   ELSE <<replace(s, <<URI>> \o uri_part, <<URI>> \o proxied)>>

\* The lines a key directive line adds to rewritten: the try block, and the
\* except clause (ValueError of urljoin), which appends the line as it was.
KeyLineOutput(line, s, b, id) ==
    LET rest == AfterUri(s)
        uri_part == IF StartsWith(rest, Q) THEN QuotedPart(rest)
                    ELSE UnquotedPart(rest)
    IN  IF urljoin_raises(uri_part) THEN <<line>>
        ELSE LET upstream_key == urljoin(b, uri_part)
                 proxied == KeyProxy(id) \o urlencode(upstream_key)
             IN  IF Contains(rest, Q)
                   THEN <<replace(s, <<URI, Q>> \o uri_part \o <<Q>>,
                                     <<URI, Q>> \o proxied \o <<Q>>)>>
                   ELSE <<replace(s, <<URI>> \o uri_part, <<URI>> \o proxied)>>

\* The lines a directive or blank line adds to rewritten.
PassThroughOutput(line, s) == <<line>>

\* SegmentLineOutput that encodes the line without resolving it.
SegmentLineOutput_unresolved(line, s, b, id) ==
    <<SegProxy(id) \o urlencode(s)>>

\* The lines a URI line adds to rewritten (urljoin does not raise).
SegmentLineOutput(line, s, b, id) ==
    <<SegProxy(id) \o urlencode(urljoin(b, s))>>

IsKeyLine(s) == StartsWith(s, KEY) /\ Contains(s, URI)

\* The for loop over text.splitlines(), from line k on: the list rewritten,
\* and whether an exception left the loop (urljoin on a URI line is outside
\* any try block).
RECURSIVE RewriteFrom(_, _, _, _, _)
RewriteFrom(lines, k, b, id, acc) ==
    IF k > Len(lines) THEN [rewritten |-> acc, raised |-> FALSE]
    ELSE LET line == lines[k]
             s == Strip(line)
         IN  IF IsKeyLine(s)
               THEN RewriteFrom(lines, k + 1, b, id, acc \o KeyLineOutput(line, s, b, id))
             ELSE IF StartsWithHash(s) \/ s = <<>>
               THEN RewriteFrom(lines, k + 1, b, id, acc \o PassThroughOutput(line, s))
             ELSE IF urljoin_raises(s)
               THEN [rewritten |-> acc, raised |-> TRUE]
             ELSE RewriteFrom(lines, k + 1, b, id, acc \o SegmentLineOutput(line, s, b, id))

RewriteLines(t, b, id) == RewriteFrom(splitlines(t), 1, b, id, <<>>)

\* ---- master resolution (views.py 269-287) ----

IsUriLine(line) == LET u == Strip(line) IN u # <<>> /\ ~StartsWithHash(u)

\* FirstUriLineAfter without the break: the last such line.
FirstUriLineAfter_last(lines, i) ==
    IF \E j \in (i + 1)..Len(lines) : IsUriLine(lines[j])
      THEN CHOOSE j \in (i + 1)..Len(lines) :
             /\ IsUriLine(lines[j])
             /\ \A m \in (j + 1)..Len(lines) : ~IsUriLine(lines[m])
      ELSE 0

\* The inner loop: the first line after line i that is neither blank nor a
\* '#' line, 0 when there is none.
FirstUriLineAfter(lines, i) ==
    IF \E j \in (i + 1)..Len(lines) : IsUriLine(lines[j])
      THEN CHOOSE j \in (i + 1)..Len(lines) :
             /\ IsUriLine(lines[j])
             /\ \A m \in (i + 1)..(j - 1) : ~IsUriLine(lines[m])
      ELSE 0

\* The outer loop from line i on: the line that gives the variant URL, 0
\* when no directive line is followed by a URI line.
RECURSIVE VariantLineFrom(_, _)
VariantLineFrom(lines, i) ==
    IF i > Len(lines) THEN 0
    ELSE IF StartsWith(Strip(lines[i]), INF) /\ FirstUriLineAfter(lines, i) # 0
      THEN FirstUriLineAfter(lines, i)
    ELSE VariantLineFrom(lines, i + 1)

\* What the master resolution decides for the fetched text: no variant (the
\* text has no directive, or no URI line follows one), the variant's URL, or
\* the ValueError of urljoin.
MasterResolution(t, b) ==
    IF ~Contains(t, INF) THEN [kind |-> "none", url |-> <<>>]
    ELSE LET lines == splitlines(t)
             j == VariantLineFrom(lines, 1)
         IN  IF j = 0 THEN [kind |-> "none", url |-> <<>>]
             ELSE IF urljoin_raises(Strip(lines[j])) THEN [kind |-> "raise", url |-> <<>>]
             ELSE [kind |-> "variant", url |-> urljoin(b, Strip(lines[j]))]

\* text = rv.text
VariantText(master, fetched) == fetched

\* ---- the view ----

\* What requests.get gives for a manifest URL: a body with a status, or an
\* exception.
ManifestAnswers ==
    { [status |-> 200, headers |-> NoHeaders, body |-> t] : t \in Manifests }
    \cup { [status |-> 404, headers |-> NoHeaders, body |-> <<>>], FailedUpstream }

\* r.raise_for_status(), or requests.get itself, raises.
FetchRaises(up) == up = FailedUpstream \/ up.status >= 400

ManifestResponse ==
    [status |-> 200,
     headers |-> [NoHeaders EXCEPT !["Content-Type"] = "application/vnd.apple.mpegurl"],
     relayed |-> FALSE]

\* The view ends with an exception raised in the named phase.
Raise(phase) ==
    /\ response' = DjangoResponse(500)
    /\ raisedIn' = phase
    /\ pc' = "done"

\* The line rewrite of text t against base b, and the response.
RewriteAndRespond(t, b) ==
    LET out == RewriteLines(t, b, VideoId) IN
    IF out.raised
      THEN /\ Raise("line_rewrite")
           /\ UNCHANGED <<rewritten, content>>
      ELSE /\ rewritten' = out.rewritten
           /\ content' = join(out.rewritten)
           /\ response' = ManifestResponse
           /\ raisedIn' = "none"
           /\ pc' = "done"

\* hls_manifest up to its first requests.get: the catalog check and the
\* resolver.
hls_manifest ==
    /\ pc = "idle"
    /\ \E c \in BOOLEAN, inf \in StreamInfos :
         LET req == [view |-> "hls_manifest", in_catalog |-> c, u |-> Absent,
                     range |-> Absent]
         IN  IF ~c THEN Refuse(req, NoInfo, 403, "none")
             ELSE IF inf = RaisedInfo THEN Refuse(req, inf, 500, "resolver")
             ELSE IF ~ServedStreamType(req.view, inf.stream_type)
               THEN Refuse(req, inf, 403, "none")
             ELSE /\ request' = req
                  /\ info' = inf
                  /\ pc' = "fetch_manifest"
                  /\ UNCHANGED <<upstreamRequests, upstream, response, raisedIn>>
    /\ UNCHANGED <<hlsVars, batchVars, coreVars>>

\* r = requests.get(info["manifest_url"]); r.raise_for_status(); the text
\* and its base URL.
hls_manifest_fetch ==
    /\ pc = "fetch_manifest"
    /\ \E up \in ManifestAnswers :
         /\ upstreamRequests' = <<UpstreamGet(info.url, Absent)>>
         /\ upstream' = up
         /\ IF FetchRaises(up)
              THEN /\ Raise("fetch_manifest")
                   /\ UNCHANGED hlsVars
              ELSE /\ text' = up.body
                   /\ base' = BaseOf(info.url)
                   /\ pc' = "resolve_master"
                   /\ UNCHANGED <<variant_url, rewritten, content, response, raisedIn>>
    /\ UNCHANGED <<request, info, batchVars, coreVars>>

\* The master resolution of the fetched text.  Without a variant the line
\* rewrite of the text follows at once.  With one, the view goes on to fetch
\* it: the master's text is not read again before line 286 overwrites it,
\* and the model drops it here (and the body of the answer it came from), so
\* that the variant's answers are explored once for each variant URL.
hls_manifest_resolve_master ==
    /\ pc = "resolve_master"
    /\ LET mr == MasterResolution(text, base) IN
       CASE mr.kind = "raise" ->
              /\ Raise("master_resolution")
              /\ UNCHANGED <<hlsVars, upstream>>
         [] mr.kind = "variant" ->
              /\ variant_url' = mr.url
              /\ pc' = "fetch_variant"
              /\ text' = <<>>
              /\ upstream' = [upstream EXCEPT !.body = <<>>]
              /\ UNCHANGED <<base, rewritten, content, response, raisedIn>>
         [] mr.kind = "none" ->
              /\ RewriteAndRespond(text, base)
              /\ UNCHANGED <<text, base, variant_url, upstream>>
    /\ UNCHANGED <<request, info, upstreamRequests, batchVars, coreVars>>

\* The variant is fetched and master resolution is applied to it in turn.
hls_manifest_fetch_variant_resolves_again ==
    /\ pc = "fetch_variant"
    /\ \E up \in ManifestAnswers :
         /\ upstreamRequests' = Append(upstreamRequests, UpstreamGet(variant_url, Absent))
         /\ upstream' = up
         /\ IF FetchRaises(up)
              THEN /\ Raise("master_resolution")
                   /\ UNCHANGED hlsVars
              ELSE /\ text' = up.body
                   /\ base' = BaseOf(variant_url)
                   /\ pc' = "resolve_master"
                   /\ UNCHANGED <<variant_url, rewritten, content, response, raisedIn>>
    /\ UNCHANGED <<request, info, batchVars, coreVars>>

\* The variant is fetched; its text and base replace the master's and the
\* line rewrite follows.
hls_manifest_fetch_variant ==
    /\ pc = "fetch_variant"
    /\ \E up \in ManifestAnswers :
         /\ upstreamRequests' = Append(upstreamRequests, UpstreamGet(variant_url, Absent))
         /\ upstream' = up
         /\ IF FetchRaises(up)
              THEN /\ Raise("master_resolution")
                   /\ UNCHANGED hlsVars
              ELSE LET t == VariantText(text, up.body)
                       b == BaseOf(variant_url)
                   IN  /\ text' = t
                       /\ base' = b
                       /\ UNCHANGED variant_url
                       /\ RewriteAndRespond(t, b)
    /\ UNCHANGED <<request, info, batchVars, coreVars>>

HlsInit ==
    /\ text = <<>>
    /\ base = <<>>
    /\ variant_url = <<>>
    /\ rewritten = <<>>
    /\ content = <<>>

ViewsNext ==
    \/ hls_segment
    \/ hls_key
    \/ progressive_file
    \/ music_stream
    \/ hls_manifest
    \/ hls_manifest_fetch
    \/ hls_manifest_resolve_master
    \/ hls_manifest_fetch_variant
    \/ NextRequest


-----------------------------------------------------------------------------
(***************************************************************************)
(* Format selection: select_best_audio, _select_progressive,               *)
(* select_manifest and the descriptor of resolve_stream_manifest.  A value *)
(* that may be None is a sequence: <<>> for None (and for a missing key,   *)
(* which dict.get turns into None), <<v>> for the value v.                 *)
(***************************************************************************)

\* Longest format list of the model.
MaxFormats == 3

None == <<>>
Some(v) == <<v>>

\* Truthiness of an optional string and of an optional number.
TruthyStr(v) == v # None /\ v # Some("")
TruthyNum(v) == v # None /\ v # Some(0)

\* a or b, for optional numbers
Or(a, b) == IF TruthyNum(a) THEN a ELSE b

\* The URLs of the model, and what the selectors ask of a URL.
HasM3u8(url) == url \in {"http://o/m.m3u8", "http://o/n.m3u8"}
EndsWithMpd(url) == url \in {"http://o/e.mpd"}

\* (f.get("ext") or "").lower()
Lower(ext) == IF ext = "M4A" THEN "m4a" ELSE ext

\* A format dict: the keys the selectors read.
Format(vcodec, acodec, protocol, url, ext, tbr, abr, manifest_url) ==
    [vcodec |-> vcodec, acodec |-> acodec, protocol |-> protocol, url |-> url,
     ext |-> ext, tbr |-> tbr, abr |-> abr, manifest_url |-> manifest_url]

\* The format dicts the adapter's lists are made of.
FormatSamples ==
    { \* muxed files served over http(s)
      Format(Some("avc1"), Some("mp4a"), Some("https"), Some("http://o/v.mp4"),
             Some("mp4"), Some(64), None, None),
      Format(Some("vp9"), Some("opus"), Some("http"), Some("http://o/v.webm"),
             Some("webm"), Some(128), None, None),
      Format(Some("avc1"), Some("mp4a"), Some("https"), Some("http://o/w.mp4"),
             Some("mp4"), None, None, None),
      \* muxed, but without a URL
      Format(Some("avc1"), Some("mp4a"), Some("https"), None,
             Some("mp4"), Some(128), None, None),
      \* video only
      Format(Some("avc1"), Some("none"), Some("https"), Some("http://o/x.mp4"),
             Some("mp4"), Some(128), None, None),
      \* HLS by its URL, by its protocol with a URL, by its protocol alone
      Format(Some("avc1"), Some("mp4a"), Some("m3u8_native"), Some("http://o/m.m3u8"),
             Some("mp4"), Some(64), None, None),
      Format(Some("avc1"), Some("mp4a"), Some("m3u8"), Some("http://o/n.m3u8"),
             Some("mp4"), None, None, None),
      Format(Some("avc1"), Some("mp4a"), Some("m3u8"), None,
             Some("mp4"), Some(128), None, None),
      \* DASH by its manifest_url, by the end of its URL; ".mpd" inside a URL
      Format(Some("avc1"), Some("none"), Some("http_dash_segments"), None,
             Some("mp4"), Some(64), None, Some("http://o/d.mpd")),
      Format(None, None, None, Some("http://o/e.mpd"), None, None, None, None),
      Format(None, None, None, Some("http://o/f.mpd?x=1"), None, None, None, None),
      \* audio only
      Format(Some("none"), Some("mp4a"), Some("https"), Some("http://o/a.m4a"),
             Some("m4a"), None, Some(64), None),
      Format(None, Some("opus"), Some("https"), Some("http://o/a.webm"),
             Some("webm"), Some(128), None, None),
      Format(Some("none"), Some("mp4a"), Some("https"), Some("http://o/b.m4a"),
             Some("M4A"), Some(0), Some(128), None),
      Format(None, Some("opus"), Some("https"), Some(""),
             Some("webm"), Some(128), Some(128), None),
      \* a dict with none of the keys
      Format(None, None, None, None, None, None, None, None) }

FormatLists == UNION { [1..k -> FormatSamples] : k \in 0..MaxFormats }

\* The info dicts: with a formats list, or without the key.
InfoDicts == { [formats |-> Some(fs)] : fs \in FormatLists } \cup { [formats |-> None] }

\* data.get("formats", [])
FormatsOf(d) == IF d.formats = None THEN <<>> ELSE d.formats[1]

\* Python's order of tuples of numbers: a > b.
RECURSIVE TupleGreater(_, _)
TupleGreater(a, b) ==
    IF a = <<>> \/ b = <<>> THEN Len(a) > Len(b)
    ELSE IF Head(a) # Head(b) THEN Head(a) > Head(b)
    ELSE TupleGreater(Tail(a), Tail(b))

\* One step of sorted(..., reverse=True) over pairs [key, item]: x goes
\* behind every pair whose key is not smaller (the sort is stable).
RECURSIVE InsertDescending(_, _)
InsertDescending(x, sorted) ==
    IF sorted = <<>> THEN <<x>>
    ELSE IF TupleGreater(x.key, Head(sorted).key) THEN <<x>> \o sorted
    ELSE <<Head(sorted)>> \o InsertDescending(x, Tail(sorted))

\* sorted(pairs, key=..., reverse=True)
RECURSIVE SortedDescending(_)
SortedDescending(pairs) ==
    IF pairs = <<>> THEN <<>>
    ELSE InsertDescending(pairs[Len(pairs)],
                          SortedDescending(SubSeq(pairs, 1, Len(pairs) - 1)))

\* sorted(fs, key=..., reverse=True)[0], the keys given by position
FirstByKey(fs, keys) ==
    SortedDescending([k \in 1..Len(fs) |-> [key |-> keys[k], item |-> fs[k]]])[1].item

\* ---- select_best_audio (services.py 118-145) ----

IsAudioOnly(f) ==
    /\ f.vcodec \in {None, Some("none")}
    /\ TruthyStr(f.acodec) /\ f.acodec # Some("none")
    /\ TruthyStr(f.url)

\* score(f) with the bitrate ranked before the container.
AudioScore_bitrate_first(f) ==
    LET ext == Lower(IF TruthyStr(f.ext) THEN f.ext[1] ELSE "")
        is_m4a == IF ext \in {"m4a", "mp4", "mp4a"} THEN 1 ELSE 0
        rate == Or(Or(f.tbr, f.abr), Some(0))
    IN  <<rate[1], is_m4a>>

\* score(f)
AudioScore(f) ==
    LET ext == Lower(IF TruthyStr(f.ext) THEN f.ext[1] ELSE "")
        is_m4a == IF ext \in {"m4a", "mp4", "mp4a"} THEN 1 ELSE 0
        rate == Or(Or(f.tbr, f.abr), Some(0))
    IN  <<is_m4a, rate[1]>>

select_best_audio(formats) ==
    LET audio_only == SelectSeq(formats, IsAudioOnly) IN
    IF audio_only = <<>> THEN None
    ELSE LET best == FirstByKey(audio_only,
                                [k \in 1..Len(audio_only) |-> AudioScore(audio_only[k])])
         IN  Some([url |-> best.url, ext |-> best.ext, acodec |-> best.acodec])

\* ---- _select_progressive (services.py 235-258) ----

IsProgressive(f) ==
    /\ TruthyStr(f.vcodec) /\ f.vcodec # Some("none")
    /\ TruthyStr(f.acodec) /\ f.acodec # Some("none")
    /\ f.protocol \in {Some("https"), Some("http")}
    /\ TruthyStr(f.url)

\* The sort key without the container.
ProgressiveKey_bitrate_only(f) == <<Or(f.tbr, Some(0))[1]>>

\* (f.get("ext") == "mp4", f.get("tbr") or 0), False < True as 0 < 1
ProgressiveKey(f) ==
    <<IF f.ext = Some("mp4") THEN 1 ELSE 0, Or(f.tbr, Some(0))[1]>>

_select_progressive(formats) ==
    LET progressive == SelectSeq(formats, IsProgressive) IN
    IF progressive = <<>> THEN None
    ELSE LET chosen == FirstByKey(progressive,
                                  [k \in 1..Len(progressive) |-> ProgressiveKey(progressive[k])])
         IN  Some([type |-> "progressive", url |-> chosen.url, ext |-> chosen.ext])

\* ---- select_manifest (services.py 261-293) ----

IsHls(f) ==
    \/ f.protocol = Some("m3u8")
    \/ HasM3u8(IF TruthyStr(f.url) THEN f.url[1] ELSE "")

IsDash(f) ==
    \/ TruthyStr(f.manifest_url)
    \/ EndsWithMpd(IF TruthyStr(f.url) THEN f.url[1] ELSE "")

\* The sort key of the HLS tier with the bitrate left out.
HlsKey_constant(f) == <<0>>

\* key=lambda f: f.get("tbr") or 0
HlsKey(f) == <<Or(f.tbr, Some(0))[1]>>

\* What a call gives: a value, or an exception.
Return(v) == [raised |-> "none", value |-> Some(v)]
RaiseError(e) == [raised |-> e, value |-> None]
NotCalled == [raised |-> "none", value |-> None]

\* select_manifest with the DASH tier tried before the HLS tier.
select_manifest_dash_first(d) ==
    LET formats == FormatsOf(d)
        prog == _select_progressive(formats)
        hls == SelectSeq(formats, IsHls)
        dash == SelectSeq(formats, IsDash)
    IN  IF prog # None THEN Return(prog[1])
        ELSE IF dash # <<>>
          THEN LET chosen == dash[1]
                   mu == IF TruthyStr(chosen.manifest_url) THEN chosen.manifest_url
                         ELSE chosen.url
               IN  Return([type |-> "dash", manifest_url |-> mu])
        ELSE IF hls # <<>>
          THEN LET chosen == FirstByKey(hls, [k \in 1..Len(hls) |-> HlsKey(hls[k])])
               IN  Return([type |-> "hls", manifest_url |-> chosen.url])
        ELSE RaiseError("RuntimeError")

select_manifest(d) ==
    LET formats == FormatsOf(d)
        prog == _select_progressive(formats)
        hls == SelectSeq(formats, IsHls)
        dash == SelectSeq(formats, IsDash)
    IN  IF prog # None THEN Return(prog[1])
        ELSE IF hls # <<>>
          THEN LET chosen == FirstByKey(hls, [k \in 1..Len(hls) |-> HlsKey(hls[k])])
               IN  Return([type |-> "hls", manifest_url |-> chosen.url])
        ELSE IF dash # <<>>
          THEN LET chosen == dash[1]
                   mu == IF TruthyStr(chosen.manifest_url) THEN chosen.manifest_url
                         ELSE chosen.url
               IN  Return([type |-> "dash", manifest_url |-> mu])
        ELSE RaiseError("RuntimeError")

\* ---- resolve_stream_manifest (services.py 311-337), from the info dict ----

\* The stream keys of the result dict: keys holds the keys that are set, the
\* fields their values (the keys copied from the info dict are left out).
Descriptor(stream_type, keys, stream_url, manifest_url) ==
    [stream_type |-> stream_type, keys |-> keys,
     stream_url |-> stream_url, manifest_url |-> manifest_url]

\* resolve_stream_manifest that answers an exhausted selection with an empty
\* DASH descriptor.
resolve_stream_manifest_swallows(d) ==
    LET sel == select_manifest(d) IN
    IF sel.raised # "none"
      THEN Return(Descriptor("dash", {"stream_type", "manifest_url"}, None, None))
    ELSE LET m == sel.value[1] IN
         IF m.type = "progressive"
           THEN Return(Descriptor("progressive", {"stream_type", "stream_url", "ext"},
                                  m.url, None))
         ELSE IF m.type = "hls"
           THEN Return(Descriptor("hls", {"stream_type", "manifest_url"},
                                  None, m.manifest_url))
         ELSE Return(Descriptor("dash", {"stream_type", "manifest_url"},
                                None, m.manifest_url))

resolve_stream_manifest(d) ==
    LET sel == select_manifest(d) IN
    IF sel.raised # "none" THEN sel
    ELSE LET m == sel.value[1] IN
         IF m.type = "progressive"
           THEN Return(Descriptor("progressive", {"stream_type", "stream_url", "ext"},
                                  m.url, None))
         ELSE IF m.type = "hls"
           THEN Return(Descriptor("hls", {"stream_type", "manifest_url"},
                                  None, m.manifest_url))
         ELSE Return(Descriptor("dash", {"stream_type", "manifest_url"},
                                None, m.manifest_url))

\* ---- resolve_audio_stream (services.py 148-177), from the info dict ----

\* resolve_audio_stream that serves the muxed file when there is one.
resolve_audio_stream_muxed_first(d) ==
    LET prog == _select_progressive(FormatsOf(d))
        audio == select_best_audio(FormatsOf(d))
    IN  IF prog # None
          THEN Return([stream_url |-> prog[1].url, ext |-> prog[1].ext, acodec |-> None])
        ELSE IF audio = None THEN RaiseError("RuntimeError")
        ELSE Return([stream_url |-> audio[1].url, ext |-> audio[1].ext,
                     acodec |-> audio[1].acodec])

resolve_audio_stream(d) ==
    LET audio == select_best_audio(FormatsOf(d)) IN
    IF audio = None THEN RaiseError("RuntimeError")
    ELSE Return([stream_url |-> audio[1].url, ext |-> audio[1].ext,
                 acodec |-> audio[1].acodec])

\* ---- the calls ----

SelectInit ==
    /\ selPc = "idle"
    /\ data = [formats |-> None]
    /\ called = "none"
    /\ returned = NotCalled

\* The adapter hands over an info dict.
extract_info ==
    /\ selPc = "idle"
    /\ \E d \in InfoDicts : data' = d
    /\ selPc' = "extracted"
    /\ UNCHANGED <<called, returned, batchVars, viewVars, cacheVars, concVars,
                 schedVars, diffVars, scanVars>>

Call(name, result) ==
    /\ called' = name
    /\ returned' = result
    /\ selPc' = "done"
    /\ UNCHANGED <<data, batchVars, viewVars, cacheVars, concVars,
                 schedVars, diffVars, scanVars>>

\* a function that returns a dict or None
OptionResult(v) == [raised |-> "none", value |-> v]

select_best_audio_call ==
    /\ selPc = "extracted"
    /\ Call("select_best_audio", OptionResult(select_best_audio(FormatsOf(data))))

select_progressive_call ==
    /\ selPc = "extracted"
    /\ Call("_select_progressive", OptionResult(_select_progressive(FormatsOf(data))))

select_manifest_call ==
    /\ selPc = "extracted"
    /\ Call("select_manifest", select_manifest(data))

resolve_stream_manifest_call ==
    /\ selPc = "extracted"
    /\ Call("resolve_stream_manifest", resolve_stream_manifest(data))

resolve_audio_stream_call ==
    /\ selPc = "extracted"
    /\ Call("resolve_audio_stream", resolve_audio_stream(data))

SelectReturn ==
    /\ selPc = "done"
    /\ selPc' = "idle"
    /\ data' = [formats |-> None]
    /\ called' = "none"
    /\ returned' = NotCalled
    /\ UNCHANGED <<batchVars, viewVars, cacheVars, concVars,
                 schedVars, diffVars, scanVars>>

SelectNext ==
    \/ extract_info
    \/ select_best_audio_call
    \/ select_progressive_call
    \/ select_manifest_call
    \/ resolve_stream_manifest_call
    \/ resolve_audio_stream_call
    \/ SelectReturn


-----------------------------------------------------------------------------
(***************************************************************************)
(* The TTL cache and resolve_video_info, one call at a time.               *)
(***************************************************************************)

\* How often the clock advances in the model.
MaxTicks == 3

\* ttl: int = 90
DefaultTtl == 90

\* The ttl arguments of _cache_set, and the steps of the clock.
TtlValues == {1, DefaultTtl}
ClockSteps == {1, DefaultTtl - 1}

VideoIds == {"v1", "v2"}

\* The data of a cache entry: an info dict, or None.
Infos == {Some("info1"), Some("info2")}
CacheData == Infos \cup {None}

\* What ydl.extract_info does: returns an info dict or None, or raises
\* DownloadError or an exception of another class.
AdapterAnswers ==
    { [outcome |-> "ok", data |-> d] : d \in CacheData }
    \cup { [outcome |-> e, data |-> None] : e \in {"DownloadError", "OSError"} }

\* _CACHE.get(video_id)
CacheItem(video_id) ==
    IF video_id \in DOMAIN _CACHE THEN Some(_CACHE[video_id]) ELSE None

\* _cache_get that still serves an entry at its expiry time.
_cache_get_inclusive(video_id) ==
    LET item == CacheItem(video_id) IN
    IF item # None /\ item[1][1] >= now THEN item[1][2] ELSE None

\* _cache_get(video_id): the data, or None (a tuple is always truthy)
_cache_get(video_id) ==
    LET item == CacheItem(video_id) IN
    IF item # None /\ item[1][1] > now THEN item[1][2] ELSE None

\* _cache_set(video_id, data, ttl)
_cache_set(video_id, d, ttl) ==
    /\ _CACHE' = [k \in DOMAIN _CACHE \cup {video_id} |->
                    IF k = video_id THEN <<now + ttl, d>> ELSE _CACHE[k]]
    /\ lastSet' = [k \in DOMAIN lastSet \cup {video_id} |->
                    IF k = video_id THEN [at |-> now, ttl |-> ttl, value |-> d]
                    ELSE lastSet[k]]

\* if cached:
TruthyData(d) == d # None

CacheCall(name, key, result, exc, adapter_calls) ==
    [name |-> name, key |-> key, result |-> result, raised |-> exc,
     adapter_calls |-> adapter_calls]

NoCacheCall == CacheCall("none", "none", None, "none", 0)

\* The exception resolve_video_info raises for the adapter's.
ResolveRaises(outcome) ==
    IF outcome = "DownloadError" THEN "RuntimeError" ELSE outcome

\* resolve_video_info that answers a failed adapter call with a second one.
ResolveAdapterCalls_retry(answer) == IF answer.outcome = "ok" THEN 1 ELSE 2

\* The adapter invocations of a resolve_video_info call that misses.
ResolveAdapterCalls(answer) == 1

CacheInit ==
    /\ _CACHE = <<>>
    /\ now = 0
    /\ ticks = 0
    /\ cacheOp = NoCacheCall
    /\ lastSet = <<>>

\* Time passes.
Tick ==
    /\ ticks < MaxTicks
    /\ \E d \in ClockSteps : now' = now + d
    /\ ticks' = ticks + 1
    /\ UNCHANGED <<_CACHE, cacheOp, lastSet, batchVars, viewVars, selVars, concVars,
                 schedVars, diffVars, scanVars>>

\* _cache_get(k), services.py 61-64: nothing is written.
cache_get_call ==
    /\ \E k \in VideoIds :
         cacheOp' = CacheCall("_cache_get", k, _cache_get(k), "none", 0)
    /\ UNCHANGED <<_CACHE, lastSet, now, ticks, batchVars, viewVars, selVars, concVars,
                 schedVars, diffVars, scanVars>>

\* _cache_set(k, d, ttl), services.py 79
cache_set_call ==
    /\ \E k \in VideoIds, d \in Infos, ttl \in TtlValues :
         /\ _cache_set(k, d, ttl)
         /\ cacheOp' = CacheCall("_cache_set", k, d, "none", 0)
    /\ UNCHANGED <<now, ticks, batchVars, viewVars, selVars, concVars,
                 schedVars, diffVars, scanVars>>

\* resolve_video_info(video_id), services.py 98-115
resolve_video_info ==
    /\ \E video_id \in VideoIds, answer \in AdapterAnswers :
         LET cached == _cache_get(video_id) IN
         IF TruthyData(cached)
           THEN /\ cacheOp' = CacheCall("resolve_video_info", video_id, cached, "none", 0)
                /\ UNCHANGED <<_CACHE, lastSet>>
           ELSE IF answer.outcome # "ok"
             THEN /\ cacheOp' = CacheCall("resolve_video_info", video_id, None,
                                          ResolveRaises(answer.outcome),
                                          ResolveAdapterCalls(answer))
                  /\ UNCHANGED <<_CACHE, lastSet>>
             ELSE /\ _cache_set(video_id, answer.data, DefaultTtl)
                  /\ cacheOp' = CacheCall("resolve_video_info", video_id, answer.data,
                                          "none", ResolveAdapterCalls(answer))
    /\ UNCHANGED <<now, ticks, batchVars, viewVars, selVars, concVars,
                 schedVars, diffVars, scanVars>>

CacheNext ==
    \/ Tick
    \/ cache_get_call
    \/ cache_set_call
    \/ resolve_video_info


-----------------------------------------------------------------------------
(***************************************************************************)
(* The cache under concurrent calls.  Threads of one process share _CACHE; *)
(* a dict operation (get, item assignment, in, del) is one atomic step,    *)
(* and a thread may be preempted between any two of them.  The clock       *)
(* stands still here: the entries are stored with the ttl of the channel   *)
(* listings.                                                               *)
(***************************************************************************)

Threads == {"t1", "t2"}

\* cache_key = f"chflat:{channel_id}:all"
ListingKeys == {"chflat:c1:all", "chflat:c2:all"}

\* _cache_set(cache_key, results, ttl=300)
ListingTtl == 300

\* The listings stored under a key.
Listings_cached == {Some("videos1"), Some("videos2")}

Thread(at, key, item, result, exc) ==
    [pc |-> at, key |-> key, item |-> item, result |-> result, raised |-> exc]

IdleThread == Thread("idle", "none", None, None, "none")

ConcInit ==
    /\ threads = [t \in Threads |-> IdleThread]
    /\ stored = {}
    /\ extractions = [v \in VideoIds |-> 0]

\* item = _CACHE.get(video_id), services.py 61
conc_get_read ==
    /\ \E t \in Threads, k \in ListingKeys :
         /\ threads[t].pc = "idle"
         /\ threads' = [threads EXCEPT ![t] = Thread("get_check", k, CacheItem(k), None, "none")]
    /\ UNCHANGED <<stored, extractions, cacheVars, batchVars, viewVars, selVars,
                 schedVars, diffVars, scanVars>>

\* if item and item[0] > time.time(): return item[1]; return None
conc_get_check ==
    /\ \E t \in Threads :
         /\ threads[t].pc = "get_check"
         /\ LET item == threads[t].item
                result == IF item # None /\ item[1][1] > now THEN item[1][2] ELSE None
            IN  threads' = [threads EXCEPT ![t] = [@ EXCEPT !.pc = "returned",
                                                            !.result = result]]
    /\ UNCHANGED <<stored, extractions, cacheVars, batchVars, viewVars, selVars,
                 schedVars, diffVars, scanVars>>

\* _CACHE[video_id] = (time.time() + ttl, data), services.py 79
conc_set ==
    /\ \E t \in Threads, k \in ListingKeys, d \in Listings_cached :
         /\ threads[t].pc = "idle"
         /\ _cache_set(k, d, ListingTtl)
         /\ stored' = stored \cup {<<k, <<now + ListingTtl, d>>>>}
         /\ threads' = [threads EXCEPT ![t] = Thread("returned", k, None, None, "none")]
    /\ UNCHANGED <<extractions, now, ticks, cacheOp, batchVars, viewVars, selVars,
                 schedVars, diffVars, scanVars>>

\* if cache_key in _CACHE:, services.py 595
invalidate_check ==
    /\ \E t \in Threads, k \in ListingKeys :
         /\ threads[t].pc = "idle"
         /\ threads' = [threads EXCEPT ![t] =
                Thread(IF k \in DOMAIN _CACHE THEN "del" ELSE "returned", k, None, None, "none")]
    /\ UNCHANGED <<stored, extractions, cacheVars, batchVars, viewVars, selVars,
                 schedVars, diffVars, scanVars>>

\* del _CACHE[cache_key], services.py 596: KeyError when the key is gone
invalidate_del ==
    /\ \E t \in Threads :
         /\ threads[t].pc = "del"
         /\ LET k == threads[t].key IN
            IF k \in DOMAIN _CACHE
              THEN /\ _CACHE' = [x \in DOMAIN _CACHE \ {k} |-> _CACHE[x]]
                   /\ threads' = [threads EXCEPT ![t] = [@ EXCEPT !.pc = "returned"]]
              ELSE /\ threads' = [threads EXCEPT ![t] = [@ EXCEPT !.pc = "raised",
                                                                  !.raised = "KeyError"]]
                   /\ UNCHANGED _CACHE
    /\ UNCHANGED <<stored, extractions, now, ticks, cacheOp, lastSet, batchVars, viewVars, selVars,
                 schedVars, diffVars, scanVars>>

\* The operation is over; the thread takes up the next one.
thread_next ==
    /\ \E t \in Threads :
         /\ threads[t].pc \in {"returned", "raised"}
         /\ threads' = [threads EXCEPT ![t] = IdleThread]
    /\ UNCHANGED <<stored, extractions, cacheVars, batchVars, viewVars, selVars,
                 schedVars, diffVars, scanVars>>

ConcNext ==
    \/ conc_get_read
    \/ conc_get_check
    \/ conc_set
    \/ invalidate_check
    \/ invalidate_del
    \/ thread_next


-----------------------------------------------------------------------------
(***************************************************************************)
(* run_scheduled_task (services.py 699-720): four calls in a row, each     *)
(* job's return value kept in a local, and the dict of the four returned.  *)
(* The function has no try block: an exception that leaves a job leaves    *)
(* run_scheduled_task.                                                     *)
(***************************************************************************)

\* The calls of lines 710-713, in order.
ScheduledJobs == <<"update_channels_metadata", "scan_channel_videos",
                   "update_videos_metadata", "update_music_tracks_metadata">>

SchedInit ==
    /\ schedPc = "idle"
    /\ started = <<>>
    /\ reported = <<>>
    /\ recorded = FALSE

run_scheduled_task ==
    /\ schedPc = "idle" /\ jobState = "idle"
    /\ schedPc' = "calling"
    /\ started' = <<>>
    /\ reported' = <<>>
    /\ recorded' = FALSE
    /\ UNCHANGED <<batchVars, viewVars, selVars, cacheVars, concVars, diffVars, scanVars>>

\* The next job is called: its results dict is created and its collection
\* read.
run_scheduled_task_call ==
    /\ schedPc = "calling" /\ jobState = "idle"
    /\ Len(started) < Len(ScheduledJobs)
    /\ Len(reported) = Len(started)
    /\ job' = ScheduledJobs[Len(started) + 1]
    /\ \E size \in 0..MaxItems : n' = size
    /\ jobState' = "running"
    /\ idx' = 1
    /\ results' = NoResults
    /\ raised' = {}
    /\ adapterFailed' = <<>>
    /\ otherFailure' = FALSE
    /\ abortedBy' = "none"
    /\ started' = Append(started, ScheduledJobs[Len(started) + 1])
    /\ UNCHANGED <<schedPc, reported, recorded, viewVars, selVars, cacheVars, concVars, diffVars, scanVars>>

\* The job has returned: its results are assigned (channel_results = ...).
run_scheduled_task_assign ==
    /\ schedPc = "calling" /\ jobState = "returned"
    /\ reported' = Append(reported, job)
    /\ recorded' = (recorded \/ results.errors # <<>>)
    /\ job' = "none"
    /\ jobState' = "idle"
    /\ n' = 0
    /\ idx' = 1
    /\ results' = NoResults
    /\ raised' = {}
    /\ adapterFailed' = <<>>
    /\ otherFailure' = FALSE
    /\ abortedBy' = "none"
    /\ UNCHANGED <<schedPc, started, viewVars, selVars, cacheVars, concVars, diffVars, scanVars>>

\* An exception has left the job: it leaves run_scheduled_task as well.
run_scheduled_task_raise ==
    /\ schedPc = "calling" /\ jobState = "aborted"
    /\ schedPc' = "aborted"
    /\ UNCHANGED <<started, reported, recorded, batchVars, viewVars, selVars,
                   cacheVars, concVars, diffVars, scanVars>>

\* return {"channels": ..., "scan": ..., "videos": ..., "music": ...}
run_scheduled_task_return ==
    /\ schedPc = "calling" /\ jobState = "idle"
    /\ Len(reported) = Len(ScheduledJobs)
    /\ schedPc' = "returned"
    /\ UNCHANGED <<started, reported, recorded, batchVars, viewVars, selVars,
                   cacheVars, concVars, diffVars, scanVars>>

SchedNext ==
    \/ run_scheduled_task
    \/ run_scheduled_task_call
    \/ update_channels_metadata_step
    \/ scan_channel_videos_step
    \/ update_videos_metadata_step
    \/ update_music_tracks_metadata_step
    \/ ReturnJob
    \/ run_scheduled_task_assign
    \/ run_scheduled_task_raise
    \/ run_scheduled_task_return


-----------------------------------------------------------------------------
(***************************************************************************)
(* The field diff of update_channels_metadata, update_videos_metadata and  *)
(* update_music_tracks_metadata.  A record has a string field (title) and  *)
(* a number field (duration; subscriber_count for a channel); the other    *)
(* fields are treated by the code like one of these two.  Numbers are      *)
(* ints.                                                                   *)
(***************************************************************************)

MetadataJobs == {"update_channels_metadata", "update_videos_metadata",
                 "update_music_tracks_metadata"}

Fields == {"title", "number"}

\* The stored record: a CharField is never NULL, the number field may be.
StoredRecords == [title : {Some(""), Some("A"), Some("B")},
                  number : {None, Some(0), Some(7)}]

\* The info dict of the adapter: each key with its value, or None (missing
\* or null); and the DownloadError it raises instead.
FetchedInfos == [outcome : {"ok"},
                 title : {None, Some(""), Some("A"), Some("B")},
                 number : {None, Some(0), Some(7)}]
                \cup {[outcome |-> "DownloadError", title |-> None, number |-> None]}

\* metadata_from_info (services.py 723-764): data.get("title") or "", the
\* duration as it is.
metadata_from_info(info_dict) ==
    [title |-> IF TruthyStr(info_dict.title) THEN info_dict.title ELSE Some(""),
     number |-> info_dict.number]

\* resolve_channel_metadata (services.py 494-530): {} on DownloadError, else
\* title "or ''", subscriber_count "or None".
resolve_channel_metadata(info_dict) ==
    IF info_dict.outcome = "DownloadError" THEN <<>>
    ELSE [title |-> IF TruthyStr(info_dict.title) THEN info_dict.title ELSE Some(""),
          number |-> IF TruthyNum(info_dict.number) THEN info_dict.number ELSE None]

\* metadata_updates of update_music_tracks_metadata (services.py 210-215):
\* info.get("title") or track.title, duration if not None else
\* track.duration.
metadata_updates(info_dict, track) ==
    [title |-> IF TruthyStr(info_dict.title) THEN info_dict.title ELSE track.title,
     number |-> IF info_dict.number # None THEN info_dict.number ELSE track.number]

\* The values the job compares with the record.
MetaOf(j, info_dict, rec) ==
    CASE j = "update_channels_metadata" -> resolve_channel_metadata(info_dict)
      [] j = "update_videos_metadata" -> metadata_from_info(info_dict)
      [] j = "update_music_tracks_metadata" -> metadata_updates(info_dict, rec)

\* for field, value in meta.items(): if value is not None and current !=
\* value: setattr(...); changed = True
ChangedFields(meta, rec) ==
    { f \in DOMAIN meta : meta[f] # None /\ meta[f] # rec[f] }

SetFields(meta, rec) ==
    [f \in Fields |-> IF f \in ChangedFields(meta, rec) THEN meta[f] ELSE rec[f]]

NoItem == [walked |-> FALSE, stored |-> [title |-> Some(""), number |-> None],
           fetched |-> [outcome |-> "none", title |-> None, number |-> None],
           saved |-> FALSE, after |-> [title |-> Some(""), number |-> None]]

NoCounts == [processed |-> 0, updated |-> 0, errors |-> 0]

DiffInit ==
    /\ diffJob = "none"
    /\ walked = 0
    /\ counts = NoCounts
    /\ lastItem = NoItem

\* A metadata job is called.
DiffStart ==
    /\ diffJob = "none"
    /\ \E j \in MetadataJobs : diffJob' = j
    /\ walked' = 0
    /\ counts' = NoCounts
    /\ lastItem' = NoItem
    /\ UNCHANGED <<batchVars, viewVars, selVars, cacheVars, concVars, schedVars, scanVars>>

\* One iteration of the job's loop, on the record rec for which the adapter
\* gives info_dict.  resolve_video_info turns DownloadError into a
\* RuntimeError, which the except clause records.
DiffItem(j, rec, info_dict) ==
    LET failed == j # "update_channels_metadata" /\ info_dict.outcome = "DownloadError"
        meta == MetaOf(j, info_dict, rec)
        changed == ~failed /\ ChangedFields(meta, rec) # {}
    IN  /\ lastItem' = [walked |-> TRUE, stored |-> rec, fetched |-> info_dict,
                    saved |-> changed,
                    after |-> IF changed THEN SetFields(meta, rec) ELSE rec]
        /\ counts' = IF failed THEN [counts EXCEPT !.errors = @ + 1]
                     ELSE [counts EXCEPT !.updated = IF changed THEN @ + 1 ELSE @,
                                         !.processed = @ + 1]
        /\ walked' = walked + 1
        /\ UNCHANGED <<diffJob, batchVars, viewVars, selVars, cacheVars, concVars,
                       schedVars, scanVars>>

update_channels_metadata_diff ==
    /\ diffJob = "update_channels_metadata" /\ walked < MaxItems
    /\ \E rec \in StoredRecords, info_dict \in FetchedInfos :
         DiffItem("update_channels_metadata", rec, info_dict)

update_videos_metadata_diff ==
    /\ diffJob = "update_videos_metadata" /\ walked < MaxItems
    /\ \E rec \in StoredRecords, info_dict \in FetchedInfos :
         DiffItem("update_videos_metadata", rec, info_dict)

update_music_tracks_metadata_diff ==
    /\ diffJob = "update_music_tracks_metadata" /\ walked < MaxItems
    /\ \E rec \in StoredRecords, info_dict \in FetchedInfos :
         DiffItem("update_music_tracks_metadata", rec, info_dict)

\* The job returns its results.
DiffReturn ==
    /\ diffJob # "none"
    /\ diffJob' = "none"
    /\ UNCHANGED <<walked, counts, lastItem, batchVars, viewVars, selVars, cacheVars,
                   concVars, schedVars, scanVars>>

DiffNext ==
    \/ DiffStart
    \/ update_channels_metadata_diff
    \/ update_videos_metadata_diff
    \/ update_music_tracks_metadata_diff
    \/ DiffReturn


-----------------------------------------------------------------------------
(***************************************************************************)
(* resolve_video_info under concurrent calls (services.py 98-115): the     *)
(* cache read, the truth test of what it gave, the adapter call and the    *)
(* cache write are separate steps of a thread, with no lock held between   *)
(* them.  The adapter answers; the clock stands still, so the whole        *)
(* behaviour lies within the ttl of the first entry stored.                *)
(***************************************************************************)

\* cached = _cache_get(video_id): item = _CACHE.get(video_id)
resolve_cache_read ==
    /\ \E t \in Threads, v \in VideoIds :
         /\ threads[t].pc = "idle"
         /\ threads' = [threads EXCEPT ![t] = Thread("resolve_check", v, CacheItem(v), None, "none")]
    /\ UNCHANGED <<stored, extractions, cacheVars, batchVars, viewVars, selVars,
                   schedVars, diffVars, scanVars>>

\* if item and item[0] > time.time(): return item[1]; if cached: return cached
resolve_cache_check ==
    /\ \E t \in Threads :
         /\ threads[t].pc = "resolve_check"
         /\ LET i == threads[t].item
                cached == IF i # None /\ i[1][1] > now THEN i[1][2] ELSE None
            IN  threads' = [threads EXCEPT ![t] =
                    IF TruthyData(cached)
                      THEN [@ EXCEPT !.pc = "returned", !.result = cached]
                      ELSE [@ EXCEPT !.pc = "resolve_extract"]]
    /\ UNCHANGED <<stored, extractions, cacheVars, batchVars, viewVars, selVars,
                   schedVars, diffVars, scanVars>>

\* data = ydl.extract_info(url, download=False)
resolve_extract ==
    /\ \E t \in Threads, d \in Infos :
         /\ threads[t].pc = "resolve_extract"
         /\ extractions' = [extractions EXCEPT ![threads[t].key] = @ + 1]
         /\ threads' = [threads EXCEPT ![t] = [@ EXCEPT !.pc = "resolve_set", !.result = d]]
    /\ UNCHANGED <<stored, cacheVars, batchVars, viewVars, selVars, schedVars, diffVars, scanVars>>

\* _cache_set(video_id, data); return data
resolve_cache_set ==
    /\ \E t \in Threads :
         /\ threads[t].pc = "resolve_set"
         /\ _cache_set(threads[t].key, threads[t].result, DefaultTtl)
         /\ stored' = stored \cup {<<threads[t].key, <<now + DefaultTtl, threads[t].result>>>>}
         /\ threads' = [threads EXCEPT ![t] = [@ EXCEPT !.pc = "returned"]]
    /\ UNCHANGED <<extractions, now, ticks, cacheOp, batchVars, viewVars, selVars,
                   schedVars, diffVars, scanVars>>

ResolveNext ==
    \/ resolve_cache_read
    \/ resolve_cache_check
    \/ resolve_extract
    \/ resolve_cache_set
    \/ thread_next


-----------------------------------------------------------------------------
(***************************************************************************)
(* scan_channel_videos and the cache of the channel listings (services.py  *)
(* 439-491, 590-603), one thread.  The clock stands still: an entry stored *)
(* with the ttl of the listings stays fresh.                               *)
(***************************************************************************)

\* Channel.objects.all(): the yt_channel_id of each row (the column is
\* unique).
ScanChannels == <<"c1", "c2">>

\* cache_key = f"chflat:{channel_id}:{limit if limit else 'all'}", limit None
ListingKey(channel_id) == IF channel_id = "c1" THEN "chflat:c1:all" ELSE "chflat:c2:all"

\* The results lists: "[]" is the empty list.
EmptyListing == Some("[]")

\* What the yt-dlp process gives: a listing (entries, possibly none), a
\* non-zero return code or output that is no JSON, or the JSON null.
ListingAnswers ==
    { [outcome |-> "ok", results |-> r] : r \in Listings_cached \cup {EmptyListing} }
    \cup { [outcome |-> "error", results |-> EmptyListing],
           [outcome |-> "null", results |-> None] }

\* list_channel_videos_flat that stores only a listing with entries.
ListingStored_nonempty(answer) == answer.outcome = "ok" /\ answer.results # EmptyListing

\* Line 490 is reached: the process succeeded and its output was a dict.
ListingStored(answer) == answer.outcome = "ok"

\* list_channel_videos_flat(channel_id, None) when the adapter would give
\* answer: whether the adapter is invoked, what is returned or raised, and
\* the cache write.
list_channel_videos_flat(channel_id, answer) ==
    LET cached == _cache_get(ListingKey(channel_id)) IN
    [calls |-> IF cached # None THEN 0 ELSE 1,
     raised |-> IF cached = None /\ answer.outcome = "null" THEN "AttributeError"
                ELSE "none",
     results |-> IF cached # None THEN cached ELSE answer.results,
     stores |-> cached = None /\ ListingStored(answer)]

NotListed == [done |-> FALSE, was_cached |-> FALSE, fresh_at_request |-> FALSE,
              calls |-> 0, outcome |-> "none", results |-> None]

ScanInit ==
    /\ scanPc = "idle"
    /\ scanIdx = 1
    /\ listed = [c \in {"c1", "c2"} |-> NotListed]

\* Some other caller lists a channel (limit None or 0) while no scan runs.
list_channel_videos_flat_call ==
    /\ scanPc = "idle"
    /\ \E c \in {"c1", "c2"}, answer \in ListingAnswers :
         LET r == list_channel_videos_flat(c, answer) IN
         IF r.stores THEN _cache_set(ListingKey(c), answer.results, ListingTtl)
         ELSE UNCHANGED <<_CACHE, lastSet>>
    /\ UNCHANGED <<scanVars, now, ticks, cacheOp, batchVars, viewVars, selVars, concVars,
                   schedVars, diffVars>>

scan_channel_videos ==
    /\ scanPc = "idle"
    /\ scanPc' = "invalidate"
    /\ scanIdx' = 1
    /\ listed' = [c \in {"c1", "c2"} |-> NotListed]
    /\ UNCHANGED <<cacheVars, batchVars, viewVars, selVars, concVars, schedVars, diffVars>>

\* if cache_key in _CACHE: del _CACHE[cache_key]
scan_invalidate ==
    /\ scanPc = "invalidate"
    /\ LET c == ScanChannels[scanIdx]
           k == ListingKey(c)
       IN  /\ _CACHE' = [x \in DOMAIN _CACHE \ {k} |-> _CACHE[x]]
           /\ listed' = [listed EXCEPT ![c].was_cached = _cache_get(k) # None]
    /\ scanPc' = "list"
    /\ UNCHANGED <<scanIdx, now, ticks, cacheOp, lastSet, batchVars, viewVars, selVars,
                   concVars, schedVars, diffVars>>

\* vids = list_channel_videos_flat(channel.yt_channel_id, limit=None); the
\* rest of the iteration does not touch the cache of the listings.
scan_list ==
    /\ scanPc = "list"
    /\ \E answer \in ListingAnswers :
         LET c == ScanChannels[scanIdx]
             r == list_channel_videos_flat(c, answer)
         IN  /\ listed' = [listed EXCEPT ![c] =
                    [done |-> TRUE, was_cached |-> @.was_cached,
                     fresh_at_request |-> _cache_get(ListingKey(c)) # None,
                     calls |-> r.calls,
                     outcome |-> IF r.calls = 0 THEN "hit"
                                 ELSE IF answer = [outcome |-> "ok", results |-> EmptyListing]
                                   THEN "empty"
                                 ELSE answer.outcome,
                     results |-> r.results]]
             /\ IF r.stores THEN _cache_set(ListingKey(c), answer.results, ListingTtl)
                ELSE UNCHANGED <<_CACHE, lastSet>>
    /\ IF scanIdx < Len(ScanChannels)
         THEN scanIdx' = scanIdx + 1 /\ scanPc' = "invalidate"
         ELSE scanPc' = "done" /\ UNCHANGED scanIdx
    /\ UNCHANGED <<now, ticks, cacheOp, batchVars, viewVars, selVars, concVars,
                   schedVars, diffVars>>

\* return results
scan_return ==
    /\ scanPc = "done"
    /\ scanPc' = "idle"
    /\ scanIdx' = 1
    /\ listed' = [c \in {"c1", "c2"} |-> NotListed]
    /\ UNCHANGED <<cacheVars, batchVars, viewVars, selVars, concVars, schedVars, diffVars>>

ScanNext ==
    \/ list_channel_videos_flat_call
    \/ scan_channel_videos
    \/ scan_invalidate
    \/ scan_list
    \/ scan_return


-----------------------------------------------------------------------------
(***************************************************************************)
(* resolve_related_videos (services.py 396-436), for one video id.  The    *)
(* call and its result are held in the variables of the format selection;  *)
(* the cache is the shared one, its keys here f"related:{video_id}:{limit}".*)
(***************************************************************************)

\* Longest related-items list of the model.
MaxRelated == 2

\* The limits a caller passes.
Limits == {0, 2}

\* A related item: the keys id and url (None: missing or null).
RelatedItems ==
    { [id |-> Some("a"), url |-> None],
      [id |-> None, url |-> Some("http://y/watch?v=b")],
      [id |-> Some(""), url |-> None] }

RelatedLists == UNION { [1..k -> RelatedItems] : k \in 0..MaxRelated }

\* (r.get("url") or "").split("v=")[-1]
LastAfterV(url) ==
    IF url = Some("http://y/watch?v=b") THEN "b"
    ELSE IF TruthyStr(url) THEN url[1] ELSE ""

\* vid = r.get("id") or (r.get("url") or "").split("v=")[-1]
VidOf(r) == IF TruthyStr(r.id) THEN r.id[1] ELSE LastAfterV(r.url)

\* The loop over related from item k on: the yt_video_id of each entry of
\* results.
RECURSIVE RelatedFrom(_, _, _, _)
RelatedFrom(related, k, limit, acc) ==
    IF k > Len(related) THEN acc
    ELSE IF VidOf(related[k]) = "" THEN RelatedFrom(related, k + 1, limit, acc)
    ELSE LET appended == Append(acc, VidOf(related[k])) IN
         IF Len(appended) >= limit THEN appended
         ELSE RelatedFrom(related, k + 1, limit, appended)

RelatedKey(limit) == <<"related", "v1", limit>>

RelatedTtl == 180

\* The adapter's info dict has a related-items list (or none), and a caller
\* asks for the related videos with a limit.
extract_related ==
    /\ selPc = "idle"
    /\ \E related \in RelatedLists, limit \in Limits :
         data' = [related |-> related, limit |-> limit]
    /\ selPc' = "extracted"
    /\ UNCHANGED <<called, returned, batchVars, viewVars, cacheVars, concVars,
                   schedVars, diffVars, scanVars>>

resolve_related_videos ==
    /\ selPc = "extracted"
    /\ LET cached == _cache_get(RelatedKey(data.limit))
           found == RelatedFrom(data.related, 1, data.limit, <<>>)
       IN  IF cached # None
             THEN /\ returned' = Return([results |-> cached[1], hit |-> TRUE])
                  /\ UNCHANGED <<_CACHE, lastSet>>
             ELSE /\ returned' = Return([results |-> found, hit |-> FALSE])
                  /\ _cache_set(RelatedKey(data.limit), Some(found), RelatedTtl)
    /\ called' = "resolve_related_videos"
    /\ selPc' = "done"
    /\ UNCHANGED <<data, now, ticks, cacheOp, batchVars, viewVars, concVars,
                   schedVars, diffVars, scanVars>>

RelatedNext ==
    \/ extract_related
    \/ resolve_related_videos
    \/ SelectReturn


Init == BatchInit /\ ViewsInit /\ HlsInit /\ SelectInit /\ CacheInit /\ ConcInit
        /\ SchedInit /\ DiffInit /\ ScanInit

SpecBatch == Init /\ [][BatchNext]_vars

SpecViews == Init /\ [][ViewsNext]_vars

SpecSelect == Init /\ [][SelectNext]_vars

SpecCache == Init /\ [][CacheNext]_vars

SpecConc == Init /\ [][ConcNext]_vars

SpecResolve == Init /\ [][ResolveNext]_vars

SpecSched == Init /\ [][SchedNext]_vars

SpecDiff == Init /\ [][DiffNext]_vars

SpecScan == Init /\ [][ScanNext]_vars

SpecRelated == Init /\ [][RelatedNext]_vars

-----------------------------------------------------------------------------
\* The items named by the errors entries, in order.
ErrorItems == [k \in 1..Len(results.errors) |-> results.errors[k].item]

\* C1: in each batch job a failure of any kind raised while processing one
\* item is caught inside the loop and recorded as an errors entry, and the
\* later items are still processed: no item's failure leaves the loop.
C1_FailureIsolation ==
    /\ jobState # "aborted"
    /\ \A i \in raised : \E k \in 1..Len(results.errors) : results.errors[k].item = i
    /\ (jobState = "returned") => (idx = n + 1)

\* C2: when the adapter call fails for exactly the items of a subset F (and
\* nothing else fails), the returned result has one errors entry for each
\* item of F, in iteration order, and none for the others, and processed is
\* N - |F|.
C2_ErrorsMatchFailedItems ==
    (jobState = "returned" /\ ~otherFailure) =>
        /\ ErrorItems = adapterFailed
        /\ results.processed = n - Len(adapterFailed)
        /\ results.processed + Len(results.errors) = n

-----------------------------------------------------------------------------
\* A proxy view has issued its upstream GET and got an answer.
Relayed == pc = "done" /\ request.view \in ProxyViews /\ response.relayed

\* C3: for every proxy endpoint, when the client request carries a Range
\* header the upstream GET carries the identical Range header, and when the
\* client sends none the upstream GET carries none.
C3_RangeForwarded ==
    (pc = "done" /\ request.view \in ProxyViews /\ Len(upstreamRequests) > 0) =>
        upstreamRequests[1].range = request.range

\* C4: for every proxy endpoint the status code of the response sent to the
\* client equals the status code the upstream returned.
C4_StatusRelayed ==
    Relayed => response.status = upstream.status

Whitelist == {"Content-Length", "Content-Range", "Accept-Ranges", "Cache-Control"}

\* C5 (as claimed): for every proxy endpoint the relayed upstream headers are
\* exactly those of the whitelist that the upstream returned: none outside
\* it is copied, and each whitelisted header the upstream returned is in the
\* client response with the same value.
C5_WhitelistRelayed ==
    Relayed =>
        \A h \in UpstreamHeaderNames \ {"Content-Type"} :
            response.headers[h] = IF h \in Whitelist THEN upstream.headers[h]
                                  ELSE Absent

\* C5 (amended): hls_segment, progressive_file and music_stream relay exactly
\* the whitelisted headers the upstream returned, with their values; hls_key
\* relays exactly Content-Length and Cache-Control of them (its Content-Range
\* and Accept-Ranges are dropped); no view copies a header outside the
\* whitelist; Content-Type is the upstream's, or the view's default.
C5_WhitelistRelayedExceptKey ==
    Relayed =>
        /\ \A h \in UpstreamHeaderNames \ {"Content-Type"} :
              response.headers[h] =
                IF h \in Whitelist /\ (request.view = "hls_key" =>
                                         h \in {"Content-Length", "Cache-Control"})
                  THEN upstream.headers[h] ELSE Absent
        /\ response.headers["Content-Type"] # Absent
        /\ upstream.headers["Content-Type"] # Absent =>
              response.headers["Content-Type"] = upstream.headers["Content-Type"]

\* A segment request whose upstream answered 206 with a Content-Range and a
\* header outside the whitelist.
C5_Witness ==
    /\ Relayed /\ request.view = "hls_segment"
    /\ upstream.status = 206
    /\ upstream.headers["Content-Range"] = "bytes 100-199/1000"
    /\ upstream.headers["Set-Cookie"] # Absent
    /\ response.headers["Content-Range"] = "bytes 100-199/1000"

-----------------------------------------------------------------------------
\* hls_manifest has answered with the rewritten playlist.
RewriteDone ==
    pc = "done" /\ request.view = "hls_manifest" /\ response.status = 200

\* The proxied forms of an upstream URL.
SegmentProxyUrl(url) == SegProxy(VideoId) \o urlencode(url)
KeyProxyUrl(url) == KeyProxy(VideoId) \o urlencode(url)

\* C6: when the line rewrite of hls_manifest completes, rewritten has one
\* line for each line of the text, in the same order; a line that, trimmed,
\* is not blank and does not start with '#' has become the segment-proxy
\* URL of that line resolved against the current base; a blank line and a
\* '#' line that is not a key directive are as they were; the body is the
\* lines joined by line breaks.
C6_LineRewrite ==
    RewriteDone =>
        LET lines == splitlines(text) IN
        /\ Len(rewritten) = Len(lines)
        /\ \A i \in 1..Len(lines) :
             LET s == Strip(lines[i]) IN
             /\ (s # <<>> /\ Head(s) \notin HashTokens) =>
                    rewritten[i] = SegmentProxyUrl(urljoin(base, s))
             /\ (s = <<>> \/ (Head(s) \in HashTokens /\ ~IsKeyLine(s))) =>
                    rewritten[i] = lines[i]
        /\ content = join(rewritten)

\* A playlist of a blank line, a padded directive and a padded relative URI,
\* rewritten against http://o/x/.
C6_Witness ==
    /\ RewriteDone
    /\ Len(upstreamRequests) = 1
    /\ text = TextOf(<< <<SP>>, <<SP, "#EXTM3U", SP>>, <<SP, "s", SP>> >>)
    /\ rewritten = << <<SP>>, <<SP, "#EXTM3U", SP>>,
                      <<"/", "stream", "/", "vid", "/", "seg", "?", "u=",
                        "http%3A", "%2F", "%2F", "o", "%2F", "x", "%2F", "s">> >>
    /\ content = <<SP, NL, SP, "#EXTM3U", SP, NL>> \o rewritten[3]

\* The value of the URI attribute of a key directive line s: what stands
\* between the quotes, or what stands before the next comma.
KeyUriQuoted(s) == StartsWith(AfterUri(s), Q)
KeyUriClosed(s) == KeyUriQuoted(s) => Contains(Tail(AfterUri(s)), Q)
KeyUriValue(s) ==
    IF KeyUriQuoted(s) THEN QuotedPart(AfterUri(s)) ELSE UnquotedPart(AfterUri(s))

\* The key directive line s with its URI attribute replaced by the key-proxy
\* URL, everything before and after the attribute kept.
KeyLineProxied(s, b) ==
    LET u == IndexOf(s, URI)
        v == KeyUriValue(s)
        proxied == KeyProxyUrl(urljoin(b, v))
    IN  IF KeyUriQuoted(s)
          THEN SubSeq(s, 1, u) \o <<Q>> \o proxied \o <<Q>>
                 \o SubSeq(s, u + Len(v) + 3, Len(s))
          ELSE SubSeq(s, 1, u) \o proxied \o SubSeq(s, u + Len(v) + 1, Len(s))

\* C7: in the rewritten playlist every key directive line with a URI
\* attribute that can be read (quoted and closed, or unquoted; a URL that
\* urljoin accepts) has that attribute replaced by the key-proxy URL of the
\* URI resolved against the current base, whatever attributes follow it.
C7_KeyUriReplaced ==
    RewriteDone =>
        LET lines == splitlines(text) IN
        \A i \in 1..Len(lines) :
            LET s == Strip(lines[i]) IN
            (IsKeyLine(s) /\ KeyUriClosed(s) /\ ~urljoin_raises(KeyUriValue(s))) =>
                /\ i <= Len(rewritten)
                /\ rewritten[i] = KeyLineProxied(s, base)

\* The try block of a key directive line raises: urljoin rejects the URI.
KeyUriRejected(s) == IsKeyLine(s) /\ urljoin_raises(KeyUriValue(s))

\* C8: a key directive line whose URI makes the parse fail is in rewritten
\* as it was, padding included, and the rewrite goes on: rewritten has one
\* line for each line of the text, each the rewrite of that line alone, and
\* the rewrite is left by an exception only for a URI line (not a key
\* directive line) that urljoin rejects.
C8_MalformedKeyLineKept ==
    (pc = "done" /\ request.view = "hls_manifest") =>
        LET lines == splitlines(text) IN
        /\ response.status = 200 =>
             /\ Len(rewritten) = Len(lines)
             /\ \A i \in 1..Len(lines) :
                  /\ KeyUriRejected(Strip(lines[i])) => rewritten[i] = lines[i]
                  /\ <<rewritten[i]>> =
                        RewriteFrom(<<lines[i]>>, 1, base, VideoId, <<>>).rewritten
        /\ raisedIn = "line_rewrite" =>
             \E i \in 1..Len(lines) :
                 LET s == Strip(lines[i]) IN
                 s # <<>> /\ Head(s) \notin HashTokens /\ urljoin_raises(s)

\* A padded key directive line whose URI urljoin rejects, then a URI line.
C8_Witness ==
    /\ RewriteDone
    /\ text = TextOf(<< <<SP, KEY, URI, Q, "/", "/", "[", "x", Q>>, <<"/", "r">> >>)
    /\ rewritten[1] = <<SP, KEY, URI, Q, "/", "/", "[", "x", Q>>
    /\ rewritten[2] = SegmentProxyUrl(<<"http:", "/", "/", "o", "/", "r">>)

\* The first stream-variant directive line of a master, and the first line
\* after it that is neither blank nor a '#' line (0 when there is none).
FirstDirectiveLine(lines) ==
    IF \E i \in 1..Len(lines) : StartsWith(Strip(lines[i]), INF)
      THEN CHOOSE i \in 1..Len(lines) :
             /\ StartsWith(Strip(lines[i]), INF)
             /\ \A m \in 1..(i - 1) : ~StartsWith(Strip(lines[m]), INF)
      ELSE 0

NonBlankNonDirective(line) ==
    Strip(line) # <<>> /\ Head(Strip(line)) \notin HashTokens

ClaimedVariantLine(lines) ==
    LET d == FirstDirectiveLine(lines) IN
    IF d # 0 /\ \E j \in (d + 1)..Len(lines) : NonBlankNonDirective(lines[j])
      THEN CHOOSE j \in (d + 1)..Len(lines) :
             /\ NonBlankNonDirective(lines[j])
             /\ \A m \in (d + 1)..(j - 1) : ~NonBlankNonDirective(lines[m])
      ELSE 0

\* C9, the step that resolves the master: the variant URL is the first
\* non-blank non-'#' line after the first stream-variant directive line,
\* resolved against the master's base, and the view goes on to fetch it.
C9_ResolveStep ==
    (pc = "resolve_master" /\ pc' # "resolve_master") =>
        LET lines == splitlines(text)
            j == ClaimedVariantLine(lines)
        IN  IF j # 0 /\ ~urljoin_raises(Strip(lines[j]))
              THEN /\ pc' = "fetch_variant"
                   /\ variant_url' = urljoin(BaseOf(info.url), Strip(lines[j]))
              ELSE pc' = "done" /\ Len(upstreamRequests') = 1

\* C9, the step that fetches the variant: the GET goes to the variant URL,
\* and the response is the rewrite of the fetched text against the
\* variant's own base.
C9_FetchStep ==
    (pc = "fetch_variant" /\ pc' = "done") =>
        /\ upstreamRequests' = Append(upstreamRequests, UpstreamGet(variant_url, Absent))
        /\ response'.status = 200 =>
             /\ text' = upstream'.body
             /\ base' = BaseOf(variant_url)
             /\ rewritten' = RewriteLines(upstream'.body, BaseOf(variant_url), VideoId).rewritten
             /\ content' = join(rewritten')

\* C9: when the fetched manifest has a stream-variant directive line
\* followed by a URI line, hls_manifest takes the first URI line after the
\* first such directive, resolved against the master's base, as the variant,
\* fetches it, and answers with the rewritten lines of the fetched variant,
\* resolved against the variant's own base.
C9_FirstVariantRewritten == [][C9_ResolveStep /\ C9_FetchStep]_vars

\* A master whose variant is http://p/d/s; the variant's one relative URI
\* line is resolved against http://p/d/.
C9_Witness ==
    /\ RewriteDone
    /\ Len(upstreamRequests) = 2
    /\ upstreamRequests[1].url = ManifestUrl
    /\ upstreamRequests[2].url = <<"http:", "/", "/", "p", "/", "d", "/", "s">>
    /\ upstream.body = TextOf(<< <<SP, "#EXTM3U", SP>>, <<SP, "s", SP>> >>)
    /\ rewritten = << <<SP, "#EXTM3U", SP>>,
                      SegmentProxyUrl(<<"http:", "/", "/", "p", "/", "d", "/", "s">>) >>

\* C10: master resolution is best-effort: a manifest in which no variant is
\* found is rewritten as it is and returned, and no exception of the
\* master-resolution phase ends the request.
C10_MasterResolutionNeverFails ==
    /\ raisedIn # "master_resolution"
    /\ (RewriteDone /\ Len(upstreamRequests) = 1) =>
           /\ text = upstream.body
           /\ rewritten = RewriteLines(upstream.body, BaseOf(info.url), VideoId).rewritten

-----------------------------------------------------------------------------
\* The named selection function has been applied to the formats of data.
Selected(name) == selPc = "done" /\ called = name

\* A string value that is present (neither None nor empty).
Present(v) == v # None /\ v # Some("")

\* The candidates of the three tiers and of the audio selection.
ProgressiveCandidate(f) ==
    /\ Present(f.vcodec) /\ f.vcodec # Some("none")
    /\ Present(f.acodec) /\ f.acodec # Some("none")
    /\ f.protocol \in {Some("http"), Some("https")}
    /\ Present(f.url)
HlsCandidate(f) ==
    f.protocol = Some("m3u8") \/ (Present(f.url) /\ HasM3u8(f.url[1]))
DashCandidate(f) ==
    Present(f.manifest_url) \/ (Present(f.url) /\ EndsWithMpd(f.url[1]))
AudioCandidate(f) ==
    /\ f.vcodec = None \/ f.vcodec = Some("none")
    /\ Present(f.acodec) /\ f.acodec # Some("none")
    /\ Present(f.url)

Exists(fs, Candidate(_)) == \E k \in 1..Len(fs) : Candidate(fs[k])

\* C11: select_manifest returns type progressive exactly when a progressive
\* candidate exists; otherwise type hls exactly when an HLS candidate
\* exists (also when a DASH candidate exists); otherwise type dash exactly
\* when a DASH candidate exists; otherwise it raises.
C11_TieredSelection ==
    Selected("select_manifest") =>
        LET fs == FormatsOf(data)
            tier == IF Exists(fs, ProgressiveCandidate) THEN "progressive"
                    ELSE IF Exists(fs, HlsCandidate) THEN "hls"
                    ELSE IF Exists(fs, DashCandidate) THEN "dash"
                    ELSE "none"
        IN  IF tier = "none"
              THEN returned = RaiseError("RuntimeError")
              ELSE /\ returned.raised = "none"
                   /\ returned.value[1].type = tier

\* A list with a DASH candidate before an HLS candidate and no progressive
\* candidate: hls is returned.
C11_Witness ==
    /\ Selected("select_manifest")
    /\ Len(FormatsOf(data)) = 2
    /\ DashCandidate(FormatsOf(data)[1]) /\ ~HlsCandidate(FormatsOf(data)[1])
    /\ HlsCandidate(FormatsOf(data)[2])
    /\ returned.value = Some([type |-> "hls", manifest_url |-> Some("http://o/m.m3u8")])

\* The pair of the audio ranking: the container is preferred when ext, in
\* lower case, is m4a, mp4 or mp4a; the bitrate is tbr, else abr, else 0
\* (a bitrate of 0 counts as none).
AudioPair(f) ==
    <<IF f.ext # None /\ Lower(f.ext[1]) \in {"m4a", "mp4", "mp4a"} THEN 1 ELSE 0,
      IF f.tbr # None /\ f.tbr # Some(0) THEN f.tbr[1]
      ELSE IF f.abr # None /\ f.abr # Some(0) THEN f.abr[1]
      ELSE 0>>

PairGreater(a, b) == a[1] > b[1] \/ (a[1] = b[1] /\ a[2] > b[2])

ProgressivePair(f) ==
    <<IF f.ext = Some("mp4") THEN 1 ELSE 0,
      IF f.tbr # None THEN f.tbr[1] ELSE 0>>

\* C13: _select_progressive returns None exactly when the list has no
\* progressive candidate, and otherwise type progressive with the url and
\* ext of a candidate whose pair (ext == mp4, tbr or 0) no other candidate's
\* pair exceeds.
C13_BestProgressive ==
    Selected("_select_progressive") =>
        LET fs == FormatsOf(data) IN
        /\ returned.raised = "none"
        /\ returned.value = None <=> ~Exists(fs, ProgressiveCandidate)
        /\ returned.value # None =>
             \E k \in 1..Len(fs) :
                 /\ ProgressiveCandidate(fs[k])
                 /\ returned.value[1] =
                        [type |-> "progressive", url |-> fs[k].url, ext |-> fs[k].ext]
                 /\ \A m \in 1..Len(fs) :
                        ProgressiveCandidate(fs[m]) =>
                            ~PairGreater(ProgressivePair(fs[m]), ProgressivePair(fs[k]))

\* A webm candidate of bitrate 128 before an mp4 candidate of bitrate 64:
\* the mp4 candidate is returned.
C13_Witness ==
    /\ Selected("_select_progressive")
    /\ Len(FormatsOf(data)) = 2
    /\ FormatsOf(data)[1].url = Some("http://o/v.webm")
    /\ FormatsOf(data)[2].url = Some("http://o/v.mp4")
    /\ returned.value = Some([type |-> "progressive", url |-> Some("http://o/v.mp4"),
                              ext |-> Some("mp4")])

\* No tier has a candidate.
Exhausted(fs) ==
    /\ ~Exists(fs, ProgressiveCandidate)
    /\ ~Exists(fs, HlsCandidate)
    /\ ~Exists(fs, DashCandidate)

\* C14 (as claimed): select_best_audio, _select_progressive and
\* select_manifest never raise, whatever the format list; only
\* resolve_stream_manifest raises, when the three tiers are exhausted.
C14_SelectorsNeverRaise ==
    /\ (selPc = "done" /\ called \in {"select_best_audio", "_select_progressive",
                                      "select_manifest"}) => returned.raised = "none"
    /\ Selected("resolve_stream_manifest") =>
           (returned.raised # "none" <=> Exhausted(FormatsOf(data)))

\* C14 (amended): select_best_audio and _select_progressive never raise,
\* whatever the format list; select_manifest raises exactly when the three
\* tiers are exhausted, its RuntimeError and nothing else; and
\* resolve_stream_manifest raises exactly then, the same error.
C14_OnlyExhaustionRaises ==
    /\ (selPc = "done" /\ called \in {"select_best_audio", "_select_progressive"}) =>
           returned.raised = "none"
    /\ (selPc = "done" /\ called \in {"select_manifest", "resolve_stream_manifest"}) =>
           /\ returned.raised \in {"none", "RuntimeError"}
           /\ returned.raised = "RuntimeError" <=> Exhausted(FormatsOf(data))

\* resolve_stream_manifest on a list of dicts with missing keys and no
\* candidate of any tier.
C14_Witness ==
    /\ Selected("resolve_stream_manifest")
    /\ Len(FormatsOf(data)) = 2
    /\ FormatsOf(data)[1] = Format(None, None, None, None, None, None, None, None)
    /\ returned = RaiseError("RuntimeError")

\* C15: a descriptor returned by resolve_stream_manifest has stream_url, a
\* URL, and no manifest_url when its stream_type is progressive, and
\* manifest_url, a URL, and no stream_url when it is hls or dash.
C15_ExactlyOneUrl ==
    (Selected("resolve_stream_manifest") /\ returned.raised = "none") =>
        LET r == returned.value[1] IN
        IF r.stream_type = "progressive"
          THEN /\ "stream_url" \in r.keys /\ Present(r.stream_url)
               /\ "manifest_url" \notin r.keys
          ELSE /\ r.stream_type \in {"hls", "dash"}
               /\ "manifest_url" \in r.keys /\ Present(r.manifest_url)
               /\ "stream_url" \notin r.keys

-----------------------------------------------------------------------------
\* This step is a _cache_get(k) call, a resolve_video_info(k) call.
GetStep(k) ==
    cacheOp'.name = "_cache_get" /\ cacheOp'.key = k /\ now' = now
ResolveStep(k) ==
    cacheOp'.name = "resolve_video_info" /\ cacheOp'.key = k /\ now' = now

\* C16: _cache_get(k) returns the data of the latest _cache_set(k, v, ttl)
\* when the time is strictly before that call's time + ttl, and a miss
\* (None) when k was never set or that time has been reached.
C16_FreshUntilExpiry ==
    [][\A k \in VideoIds :
          GetStep(k) =>
              cacheOp'.result =
                  IF k \in DOMAIN lastSet /\ now < lastSet[k].at + lastSet[k].ttl
                    THEN lastSet[k].value ELSE None]_vars

\* A read at the very time an entry set with ttl 1 expires: a miss.
C16_Witness ==
    /\ cacheOp = CacheCall("_cache_get", "v1", None, "none", 0)
    /\ "v1" \in DOMAIN lastSet
    /\ lastSet["v1"] = [at |-> DefaultTtl - 1, ttl |-> 1, value |-> Some("info1")]
    /\ now = DefaultTtl

\* C17: a _cache_get(k) that finds an expired entry returns a miss and
\* leaves no entry for k in the cache.
C17_ExpiredEntryPurged ==
    [][\A k \in VideoIds :
          (GetStep(k) /\ k \in DOMAIN _CACHE /\ _CACHE[k][1] <= now) =>
              /\ cacheOp'.result = None
              /\ k \notin DOMAIN _CACHE']_vars

\* C18: a resolve_video_info(id) call made while the cache holds a
\* non-expired entry for id returns that entry's data and does not invoke
\* the adapter; a call made on a miss invokes it once and, when it
\* succeeds, stores its result under id with the default ttl and returns it.
C18_ResolveUsesCache ==
    [][\A k \in VideoIds :
          ResolveStep(k) =>
              IF k \in DOMAIN _CACHE /\ _CACHE[k][1] > now
                THEN /\ cacheOp'.adapter_calls = 0
                     /\ cacheOp'.result = _CACHE[k][2]
                     /\ _CACHE' = _CACHE
                ELSE /\ cacheOp'.adapter_calls = 1
                     /\ cacheOp'.raised = "none" =>
                          /\ k \in DOMAIN _CACHE'
                          /\ _CACHE'[k] = <<now + DefaultTtl, cacheOp'.result>>]_vars

\* C19: when the adapter fails during resolve_video_info(id), the call
\* raises after one adapter invocation and the cache is as it was.
C19_FailureLeavesCache ==
    [][\A k \in VideoIds :
          (ResolveStep(k) /\ cacheOp'.raised # "none") =>
              /\ cacheOp'.adapter_calls = 1
              /\ cacheOp'.result = None
              /\ _CACHE' = _CACHE]_vars

\* A call for v1 that raised while the cache held an expired entry for v1
\* and a live one for v2: both are still there.
C19_Witness ==
    /\ cacheOp = CacheCall("resolve_video_info", "v1", None, "RuntimeError", 1)
    /\ DOMAIN _CACHE = {"v1", "v2"}
    /\ _CACHE["v1"][1] <= now
    /\ _CACHE["v2"][1] > now

-----------------------------------------------------------------------------
\* C20: under every interleaving of threads that read, set and invalidate
\* cache entries, no cache operation raises, and the item a read has got is
\* None or a whole <<expires, data>> entry that a set stored under the key
\* that is read.
C20_ConcurrentAccessSafe ==
    \A t \in Threads :
        /\ threads[t].raised = "none"
        /\ threads[t].pc \in {"get_check", "returned"} =>
               \/ threads[t].item = None
               \/ <<threads[t].key, threads[t].item[1]>> \in stored

-----------------------------------------------------------------------------
\* The view has answered a request for a catalogued video whose stream the
\* resolver has typed.
Answered(view) ==
    /\ pc = "done"
    /\ request.view = view
    /\ request.in_catalog
    /\ info.stream_type \in {"progressive", "hls", "dash"}

ClientError == response.status \in 400..499

\* C21: hls_manifest answers with a client error and issues no upstream
\* request when the resolved stream type is not hls, and progressive_file
\* does so when the resolved stream type is not progressive.
C21_WrongStreamTypeRefused ==
    /\ Answered("hls_manifest") /\ info.stream_type # "hls" =>
           ClientError /\ upstreamRequests = <<>>
    /\ Answered("progressive_file") /\ info.stream_type # "progressive" =>
           ClientError /\ upstreamRequests = <<>>

C21_Witness ==
    /\ Answered("hls_manifest")
    /\ info.stream_type = "dash"
    /\ response.status = 403
    /\ upstreamRequests = <<>>

-----------------------------------------------------------------------------
\* C22: resolve_audio_stream raises exactly when the format list has no
\* audio-only candidate; otherwise its stream_url is the URL of the format
\* select_best_audio chooses, whatever muxed, HLS or DASH formats the list
\* holds.
C22_AudioOnlySelection ==
    Selected("resolve_audio_stream") =>
        LET fs == FormatsOf(data) IN
        /\ returned.raised # "none" <=> ~Exists(fs, AudioCandidate)
        /\ returned.raised = "none" =>
               /\ returned.value # None
               /\ returned.value[1].stream_url = select_best_audio(fs)[1].url
               /\ \E k \in 1..Len(fs) :
                      AudioCandidate(fs[k]) /\ fs[k].url = returned.value[1].stream_url

C22_Witness ==
    /\ Selected("resolve_audio_stream")
    /\ Exists(FormatsOf(data), ProgressiveCandidate)
    /\ Exists(FormatsOf(data), HlsCandidate)
    /\ returned.raised = "none"
    /\ returned.value[1].stream_url = Some("http://o/a.m4a")

-----------------------------------------------------------------------------
\* run_scheduled_task is over: it has returned its dict, or an exception
\* has left it.
SchedOver == schedPc \in {"returned", "aborted"}

\* C23: run_scheduled_task calls the four jobs in the order of
\* ScheduledJobs, each after the one before has returned, and when a job
\* whose results it holds has recorded per-item errors, all four are still
\* called and all four results are reported.
C23_AllJobsRunInOrder ==
    /\ \E k \in 0..Len(ScheduledJobs) : started = SubSeq(ScheduledJobs, 1, k)
    /\ Len(reported) \in {Len(started) - 1, Len(started)}
    /\ reported = SubSeq(started, 1, Len(reported))
    /\ SchedOver /\ recorded =>
           started = ScheduledJobs /\ reported = ScheduledJobs

-----------------------------------------------------------------------------
\* Some non-null field the adapter returned differs from the stored value.
AdapterFieldDiffers ==
    \E f \in Fields : lastItem.fetched[f] # None /\ lastItem.fetched[f] # lastItem.stored[f]

\* C24: a metadata job saves a record exactly when a non-null field the
\* adapter returned differs from the stored value, updated counts these
\* writes, and updated never exceeds processed.
C24_WriteOnlyOnChange ==
    /\ lastItem.walked /\ lastItem.fetched.outcome = "ok" => (lastItem.saved <=> AdapterFieldDiffers)
    /\ lastItem.walked /\ lastItem.fetched.outcome # "ok" => ~lastItem.saved
    /\ counts.updated <= counts.processed

-----------------------------------------------------------------------------
\* C25: however concurrent resolve_video_info calls for one id interleave,
\* the adapter is invoked at most once for the id before the entry stored
\* for it expires.
C25_OneExtractionPerWindow ==
    \A v \in VideoIds : now < DefaultTtl => extractions[v] <= 1

-----------------------------------------------------------------------------
\* The bitrate of a format: tbr, 0 when it is missing.
Bitrate(f) == IF f.tbr = None THEN 0 ELSE f.tbr[1]

HlsTier(fs) == ~Exists(fs, ProgressiveCandidate) /\ Exists(fs, HlsCandidate)
DashTier(fs) ==
    ~Exists(fs, ProgressiveCandidate) /\ ~Exists(fs, HlsCandidate) /\ Exists(fs, DashCandidate)

\* C26: in the HLS tier select_manifest returns the URL of an HLS candidate
\* no other HLS candidate has a higher bitrate than; in the DASH tier it
\* returns manifest_url, else url, of the first DASH candidate of the list.
C26_TierChoice ==
    Selected("select_manifest") =>
        LET fs == FormatsOf(data) IN
        /\ HlsTier(fs) =>
               /\ returned.raised = "none"
               /\ \E k \in 1..Len(fs) :
                      /\ HlsCandidate(fs[k])
                      /\ \A m \in 1..Len(fs) :
                             HlsCandidate(fs[m]) => Bitrate(fs[m]) <= Bitrate(fs[k])
                      /\ returned.value[1].manifest_url = fs[k].url
        /\ DashTier(fs) =>
               /\ returned.raised = "none"
               /\ \E k \in 1..Len(fs) :
                      /\ DashCandidate(fs[k])
                      /\ \A m \in 1..(k - 1) : ~DashCandidate(fs[m])
                      /\ returned.value[1].manifest_url =
                             IF Present(fs[k].manifest_url) THEN fs[k].manifest_url
                             ELSE fs[k].url

C26_Witness ==
    /\ Selected("select_manifest")
    /\ HlsTier(FormatsOf(data))
    /\ Len(FormatsOf(data)) >= 2
    /\ FormatsOf(data)[1].url = Some("http://o/n.m3u8")
    /\ FormatsOf(data)[2].url = Some("http://o/m.m3u8")
    /\ returned.value[1].manifest_url = Some("http://o/m.m3u8")

-----------------------------------------------------------------------------
\* The scan has walked the channel and has not returned yet.
Scanned(c) == scanPc # "idle" /\ listed[c].done

\* The scan forced a refresh of the channel's listing: no fresh entry was
\* left when the listing was requested, and the adapter was invoked once.
Refreshed(c) == ~listed[c].fresh_at_request /\ listed[c].calls = 1

\* C27: for every channel the scan walks, the listing's entry is
\* invalidated before the listing is requested, the adapter is invoked once,
\* and a failed or empty listing leaves no entry in the cache.
C27_RefreshNoEmptyCached ==
    \A c \in {"c1", "c2"} :
        Scanned(c) =>
            /\ Refreshed(c)
            /\ listed[c].outcome \in {"error", "null", "empty"} =>
                   ListingKey(c) \notin DOMAIN _CACHE

\* C27, amended: the refresh is forced as stated; a failed listing leaves
\* no entry, and a listing the adapter gave, with entries or without, is
\* stored with the ttl of the listings.
C27_RefreshFailedNotCached ==
    \A c \in {"c1", "c2"} :
        Scanned(c) =>
            /\ Refreshed(c)
            /\ listed[c].outcome \in {"error", "null"} =>
                   ListingKey(c) \notin DOMAIN _CACHE
            /\ listed[c].outcome \in {"ok", "empty"} =>
                   /\ ListingKey(c) \in DOMAIN _CACHE
                   /\ _CACHE[ListingKey(c)] = <<now + ListingTtl, listed[c].results>>

C27_Witness ==
    /\ Scanned("c1") /\ Scanned("c2")
    /\ listed["c1"].was_cached /\ listed["c1"].calls = 1
    /\ listed["c1"].outcome = "empty"
    /\ _CACHE[ListingKey("c1")] = <<now + ListingTtl, EmptyListing>>
    /\ listed["c2"].was_cached /\ listed["c2"].outcome = "error"

-----------------------------------------------------------------------------
\* s is ids with some items left out, the order kept.
RECURSIVE IsSubsequence(_, _)
IsSubsequence(s, ids) ==
    IF s = <<>> THEN TRUE
    ELSE IF ids = <<>> THEN FALSE
    ELSE IF Head(s) = Head(ids) THEN IsSubsequence(Tail(s), Tail(ids))
    ELSE IsSubsequence(s, Tail(ids))

\* C28: resolve_related_videos returns at most limit entries, each with a
\* non-empty yt_video_id, and on a cache miss in the order of the adapter's
\* list.
C28_AtMostLimit ==
    Selected("resolve_related_videos") =>
        LET r == returned.value[1] IN
        /\ Len(r.results) <= data.limit
        /\ \A k \in 1..Len(r.results) : r.results[k] # ""
        /\ ~r.hit => IsSubsequence(r.results,
                                   [k \in 1..Len(data.related) |-> VidOf(data.related[k])])

-----------------------------------------------------------------------------
StreamViews == {"hls_manifest", "hls_segment", "hls_key", "progressive_file"}

\* The request names a video that is not in the catalog, or (segment and
\* key) has no u parameter or an empty one.
NotServable ==
    \/ ~request.in_catalog
    \/ /\ request.view \in {"hls_segment", "hls_key"}
       /\ (request.u = Absent \/ request.u = <<>>)

\* C29: a stream endpoint answers such a request with 403, without calling
\* the resolver and without an upstream request.
C29_RefusedBeforeAnyCall ==
    pc = "done" /\ request.view \in StreamViews /\ NotServable =>
        /\ response.status = 403
        /\ info = NoInfo
        /\ upstreamRequests = <<>>

C29_Witness ==
    /\ pc = "done"
    /\ request.view = "hls_key"
    /\ request.in_catalog
    /\ request.u = <<>>
    /\ response.status = 403
    /\ upstreamRequests = <<>>

-----------------------------------------------------------------------------
\* The text has a line that names the stream-variant directive.
NamesVariants(t) == Contains(t, INF)

\* C30: hls_manifest issues at most two upstream requests, and after the
\* second one the answer is the line rewrite of the fetched variant as it
\* is, against the variant's base, also when the variant names stream
\* variants itself.
C30_ResolvedOnce ==
    /\ request.view = "hls_manifest" => Len(upstreamRequests) <= 2
    /\ RewriteDone /\ Len(upstreamRequests) = 2 =>
           LET out == RewriteLines(upstream.body, BaseOf(upstreamRequests[2].url), VideoId)
           IN  ~out.raised /\ rewritten = out.rewritten

C30_Witness ==
    /\ RewriteDone
    /\ Len(upstreamRequests) = 2
    /\ NamesVariants(upstream.body)
    /\ upstream.body = TextOf(<< <<INF, "BANDWIDTH=1">>, <<SP, "s", SP>> >>)
    /\ rewritten = << <<INF, "BANDWIDTH=1">>,
                      SegmentProxyUrl(BaseOf(upstreamRequests[2].url) \o <<"s">>) >>

=============================================================================
